---- MODULE Spec2Model ----
(***************************************************************************)
(* CAIE paper navigator: the PaperSearch component, the App that hosts it, *)
(* the storage module and the quick-code codec / validators.               *)
(*                                                                         *)
(* JavaScript strings that are only compared (curriculum, subject and      *)
(* season ids, labels) are TLA+ strings.  Strings that are cut, joined or  *)
(* matched against the quick-code regex (subject codes, paperType,         *)
(* variant, year, the quick code itself) are sequences of one-character    *)
(* strings, so that formatting and parsing are computed, not assumed.      *)
(***************************************************************************)
EXTENDS Integers, Sequences, FiniteSets, TLC

---------------------------------------------------------------------------
(* Lookup tables (constants.ts)                                            *)

ALevel == "cambridge-international-a-level"
IGCSE == "cambridge-igcse"

CURRICULUMS == <<ALevel, IGCSE>>

\* Three rows of the 20-row table, in source order: two A-level subjects
\* and one IGCSE subject.
SUBJECTS ==
  << [id |-> "chemistry-9701", code |-> <<"9", "7", "0", "1">>,
      label |-> "Chemistry", curriculum |-> ALevel],
     [id |-> "physics-9702", code |-> <<"9", "7", "0", "2">>,
      label |-> "Physics", curriculum |-> ALevel],
     [id |-> "computer-science-0478", code |-> <<"0", "4", "7", "8">>,
      label |-> "Computer Science", curriculum |-> IGCSE] >>

seasonS ==
  << [id |-> "m", label |-> <<"F", "/", "M">>],
     [id |-> "s", label |-> <<"M", "/", "J">>],
     [id |-> "w", label |-> <<"O", "/", "N">>] >>

\* Array.prototype.find returns the first row that passes, or undefined
\* (NoSubject, NoSeason).
NoSubject == [id |-> "", code |-> <<>>, label |-> "", curriculum |-> ""]
NoSeason == [id |-> "", label |-> <<>>]

First(hits) == CHOOSE i \in hits : \A j \in hits : i <= j

\* A lookup that falls back on the first row when no row has the id.
FindSubjectByIdOrFirst(id) ==
  LET hits == {i \in 1..Len(SUBJECTS) : SUBJECTS[i].id = id}
  IN IF hits = {} THEN SUBJECTS[1] ELSE SUBJECTS[First(hits)]

\* SUBJECTS.find(s => s.id === id)
FindSubjectById(id) ==
  LET hits == {i \in 1..Len(SUBJECTS) : SUBJECTS[i].id = id}
  IN IF hits = {} THEN NoSubject ELSE SUBJECTS[First(hits)]

\* SUBJECTS.find(s => s.code === code)
FindSubjectByCode(code) ==
  LET hits == {i \in 1..Len(SUBJECTS) : SUBJECTS[i].code = code}
  IN IF hits = {} THEN NoSubject ELSE SUBJECTS[First(hits)]

\* seasonS.find(s => s.id === seasonId)
FindSeason(seasonId) ==
  LET hits == {i \in 1..Len(seasonS) : seasonS[i].id = seasonId}
  IN IF hits = {} THEN NoSeason ELSE seasonS[First(hits)]

\* SUBJECTS.filter(subject => subject.curriculum === formValues.curriculum)
filteredSubjects(curriculum) ==
  {SUBJECTS[i].id : i \in {j \in 1..Len(SUBJECTS) : SUBJECTS[j].curriculum = curriculum}}

---------------------------------------------------------------------------
(* Strings and numbers                                                     *)

Digits == {"0", "1", "2", "3", "4", "5", "6", "7", "8", "9"}

DigitVal(c) ==
  CASE c = "0" -> 0 [] c = "1" -> 1 [] c = "2" -> 2 [] c = "3" -> 3
    [] c = "4" -> 4 [] c = "5" -> 5 [] c = "6" -> 6 [] c = "7" -> 7
    [] c = "8" -> 8 [] c = "9" -> 9

IsDigits(s) == \A i \in 1..Len(s) : s[i] \in Digits

\* Number.isNaN is modelled by this value; every comparison with it is
\* guarded by the callers exactly where the code's comparison would be false.
NaN == -1

\* parseInt(s): the value of the longest prefix of decimal digits, NaN if
\* the string does not start with a digit.
RECURSIVE ParseDigits(_, _, _)
ParseDigits(s, i, acc) ==
  IF i > Len(s) \/ s[i] \notin Digits THEN acc
  ELSE ParseDigits(s, i + 1, acc * 10 + DigitVal(s[i]))

parseInt(s) ==
  IF Len(s) = 0 \/ s[1] \notin Digits THEN NaN ELSE ParseDigits(s, 1, 0)

\* new Date().getFullYear(): the calendar year of the run.
CurrentYear == 2026

---------------------------------------------------------------------------
(* Validators (validation.ts, carried in constants.ts lines 157-265)       *)

\* A validator returns null (NoError) or a message; a message that quotes a
\* value carries it in arg.
NoError == [msg |-> ""]
Err(m) == [msg |-> m]
ErrWith(m, a) == [msg |-> m, arg |-> a]

FormatError ==
  Err("Invalid format. Correct: [Subject Code]/[Paper Number]/[Season]/[Year]")

\* A validatePaperType without the test for "0".
validatePaperTypeZeroAllowed(value) ==
  IF value = <<>> THEN NoError
  ELSE IF Len(value) # 1 THEN Err("Please enter a valid paper type")
  ELSE IF ~IsDigits(value) THEN Err("Paper type must be a number")
  ELSE NoError

validatePaperType(value) ==
  IF value = <<>> THEN NoError
  ELSE IF Len(value) # 1 THEN Err("Please enter a valid paper type")
  ELSE IF value = <<"0">> THEN Err("Paper type cannot be 0")
  ELSE IF ~IsDigits(value) THEN Err("Paper type must be a number")
  ELSE NoError

validateVariant(value) ==
  IF value = <<>> THEN NoError
  ELSE IF Len(value) # 1 THEN Err("Please enter a valid variant")
  ELSE IF ~IsDigits(value) THEN Err("Variant must be a number")
  ELSE NoError

validateYear(value, currentYear) ==
  IF value = <<>> THEN NoError
  ELSE IF Len(value) # 2 /\ Len(value) < 4 THEN Err("Please enter a valid year")
  ELSE LET yearNum == IF Len(value) >= 4 THEN parseInt(value)
                      ELSE parseInt(<<"2", "0">> \o value)
       IN IF yearNum = NaN THEN Err("Invalid year format")
          ELSE IF yearNum < 2009 THEN Err("Year must be 2009 or later")
          ELSE IF yearNum > currentYear
            THEN ErrWith("Year cannot exceed current year", currentYear)
          ELSE NoError

\* /^(\d{4})\/(\d{2})\/(F\/M|M\/J|O\/N)\/(\d{2})$/
SeasonLabels == {<<"F", "/", "M">>, <<"M", "/", "J">>, <<"O", "/", "N">>}

QuickCodeRegexTest(code) ==
  /\ Len(code) = 14
  /\ IsDigits(SubSeq(code, 1, 4))
  /\ code[5] = "/"
  /\ IsDigits(SubSeq(code, 6, 7))
  /\ code[8] = "/"
  /\ SubSeq(code, 9, 11) \in SeasonLabels
  /\ code[12] = "/"
  /\ IsDigits(SubSeq(code, 13, 14))

\* A validateQuickCode that checks the year before the subject.
validateQuickCodeYearFirst(code, currentYear) ==
  IF code = <<>> THEN NoError
  ELSE IF ~QuickCodeRegexTest(code) THEN FormatError
  ELSE LET subjectCode == SubSeq(code, 1, 4)
           subject == FindSubjectByCode(subjectCode)
           fullYearNum == parseInt(<<"2", "0">> \o SubSeq(code, 13, 14))
       IN IF fullYearNum > currentYear
            THEN ErrWith("Year cannot exceed current year", currentYear)
          ELSE IF fullYearNum < 2009 THEN Err("Year must be 2009 or later")
          ELSE IF subject = NoSubject
            THEN ErrWith("Subject with code is not supported yet", subjectCode)
          ELSE NoError

validateQuickCode(code, currentYear) ==
  IF code = <<>> THEN NoError
  ELSE IF ~QuickCodeRegexTest(code) THEN FormatError
  ELSE LET subjectCode == SubSeq(code, 1, 4)
           subject == FindSubjectByCode(subjectCode)
           fullYearNum == parseInt(<<"2", "0">> \o SubSeq(code, 13, 14))
       IN IF subject = NoSubject
            THEN ErrWith("Subject with code is not supported yet", subjectCode)
          ELSE IF fullYearNum > currentYear
            THEN ErrWith("Year cannot exceed current year", currentYear)
          ELSE IF fullYearNum < 2009 THEN Err("Year must be 2009 or later")
          ELSE NoError

---------------------------------------------------------------------------
(* Quick-code codec                                                        *)

NoParse == [ok |-> FALSE]

\* A parseQuickCode that reads the paper number back to front.
parseQuickCodeSwapped(code) ==
  IF ~QuickCodeRegexTest(code) THEN NoParse
  ELSE LET paperNumber == SubSeq(code, 6, 7)
           season == SubSeq(code, 9, 11)
           seasonId == IF season = <<"M", "/", "J">> THEN "s"
                       ELSE IF season = <<"O", "/", "N">> THEN "w"
                       ELSE IF season = <<"F", "/", "M">> THEN "m"
                       ELSE ""
       IN [ok |-> TRUE,
           subjectCode |-> SubSeq(code, 1, 4),
           paperType |-> SubSeq(paperNumber, 2, 2),
           variant |-> SubSeq(paperNumber, 1, 1),
           season |-> seasonId,
           year |-> SubSeq(code, 13, 14)]

parseQuickCode(code) ==
  IF ~QuickCodeRegexTest(code) THEN NoParse
  ELSE LET paperNumber == SubSeq(code, 6, 7)
           season == SubSeq(code, 9, 11)
           seasonId == IF season = <<"M", "/", "J">> THEN "s"
                       ELSE IF season = <<"O", "/", "N">> THEN "w"
                       ELSE IF season = <<"F", "/", "M">> THEN "m"
                       ELSE ""
       IN [ok |-> TRUE,
           subjectCode |-> SubSeq(code, 1, 4),
           paperType |-> SubSeq(paperNumber, 1, 1),
           variant |-> SubSeq(paperNumber, 2, 2),
           season |-> seasonId,
           year |-> SubSeq(code, 13, 14)]

\* An encoder that writes the variant before the paper type.
generateQuickCodeSwapped(values) ==
  LET selectedSubject == FindSubjectById(values.subject)
      seasonCode == IF values.season = "s" THEN <<"M", "/", "J">>
                    ELSE IF values.season = "w" THEN <<"O", "/", "N">>
                    ELSE IF values.season = "m" THEN <<"F", "/", "M">>
                    ELSE <<>>
      paperNumber == values.variant \o values.paperType
  IN IF selectedSubject = NoSubject THEN <<>>
     ELSE selectedSubject.code \o <<"/">> \o paperNumber \o <<"/">>
            \o seasonCode \o <<"/">> \o values.year

generateQuickCode(values) ==
  LET selectedSubject == FindSubjectById(values.subject)
      seasonCode == IF values.season = "s" THEN <<"M", "/", "J">>
                    ELSE IF values.season = "w" THEN <<"O", "/", "N">>
                    ELSE IF values.season = "m" THEN <<"F", "/", "M">>
                    ELSE <<>>
      paperNumber == values.paperType \o values.variant
  IN IF selectedSubject = NoSubject THEN <<>>
     ELSE selectedSubject.code \o <<"/">> \o paperNumber \o <<"/">>
            \o seasonCode \o <<"/">> \o values.year

\* The identifier handleQuickCodeSubmit builds from a parsed code and the
\* subject row found by its code.
FormFromParsed(parsed, subject) ==
  [curriculum |-> subject.curriculum,
   subject |-> subject.id,
   paperType |-> parsed.paperType,
   variant |-> parsed.variant,
   season |-> parsed.season,
   year |-> parsed.year]

---------------------------------------------------------------------------
(* Storage backends (storage.ts)                                           *)

StorageKeys ==
  {"formValues", "quickSearchValues", "hidePinRecommendation", "showDialogOnLoad"}

\* A slot of chrome.storage.local holds nothing, null or a value.  A slot of
\* localStorage holds nothing or a string: Json(x) is JSON.stringify(x) and
\* Text(t) is any other string, such as the "true" of value.toString().
Absent == [tag |-> "absent"]
Null == [tag |-> "null"]
Val(x) == [tag |-> "val", v |-> x]
Json(x) == [tag |-> "json", v |-> x]
Text(t) == [tag |-> "text", v |-> t]

EmptyStore == [k \in StorageKeys |-> Absent]

\* {}: the object with no keys.
EmptyObj == [k \in {} |-> ""]

\* A save that writes its argument over what is stored instead of merging.
MergeObjOverwrite(existingValues, values) == values

\* { ...existingValues, ...values }
MergeObj(existingValues, values) ==
  [k \in DOMAIN existingValues \cup DOMAIN values |->
     IF k \in DOMAIN values THEN values[k] ELSE existingValues[k]]

\* JSON.parse of a stored string: the stringified value, or a SyntaxError.
JsonParses(item) == item.tag = "json"
JsonParse(item) == item.v

\* result.formValues || {} in the callback of chrome.storage.local.get
ChromeExisting(slot) == IF slot.tag = "val" THEN slot.v ELSE EmptyObj

\* saveFormValues, extension backend, the callback of the get: merge the
\* values into what the get returned and set the key.
SaveFormValuesChromeCallback(st, result, values) ==
  [st EXCEPT !.formValues = Val(MergeObj(ChromeExisting(result), values))]

\* saveFormValues, localStorage backend: read, parse, merge, write; a parse
\* error is caught and logged, nothing is written.
SaveFormValuesLocal(st, values) ==
  LET savedValues == st.formValues
  IN IF savedValues = Absent
       THEN [st EXCEPT !.formValues = Json(MergeObj(EmptyObj, values))]
     ELSE IF ~JsonParses(savedValues) THEN st
     ELSE [st EXCEPT !.formValues =
             Json(MergeObj(JsonParse(savedValues), values))]

\* loadFormValues: what the promise resolves with (Null or Val(values)).
LoadFormValuesChrome(result) ==
  IF result.tag = "val" /\ DOMAIN result.v # {} THEN Val(result.v) ELSE Null

LoadFormValuesLocal(st) ==
  LET savedValues == st.formValues
  IN IF savedValues = Absent THEN Null
     ELSE IF ~JsonParses(savedValues) THEN Null
     ELSE Val(JsonParse(savedValues))

\* saveQuickSearchValues
SaveQuickSearchValues(chrome, st, code) ==
  IF chrome THEN [st EXCEPT !.quickSearchValues = Val([quickCode |-> code])]
  ELSE [st EXCEPT !.quickSearchValues = Json([quickCode |-> code])]

\* loadQuickSearchValues: Null or Val(quickCode); an empty quick code is
\* falsy and resolves null.
LoadQuickSearchValuesChrome(result) ==
  IF result.tag = "val" /\ result.v.quickCode # <<>>
    THEN Val(result.v.quickCode) ELSE Null

LoadQuickSearchValuesLocal(st) ==
  LET savedValues == st.quickSearchValues
  IN IF savedValues = Absent THEN Null
     ELSE IF ~JsonParses(savedValues) THEN Null
     ELSE IF JsonParse(savedValues).quickCode # <<>>
       THEN Val(JsonParse(savedValues).quickCode)
     ELSE Null

\* clearAllValues
ClearAllValues(chrome, st) ==
  IF chrome
    THEN [st EXCEPT !.formValues = Null, !.quickSearchValues = Null]
  ELSE [st EXCEPT !.formValues = Absent, !.quickSearchValues = Absent]

\* savePreference(key, value)
SavePreference(chrome, st, key, value) ==
  IF chrome THEN [st EXCEPT ![key] = Val(value)]
  ELSE [st EXCEPT ![key] = Text(IF value THEN "true" ELSE "false")]

defaultPreferences ==
  [hidePinRecommendation |-> FALSE, showDialogOnLoad |-> TRUE, formValues |-> Null]

\* loadPreferences, extension backend: result holds the three slots read.
LoadPreferencesChrome(result) ==
  [hidePinRecommendation |-> result.hidePinRecommendation = Val(TRUE),
   showDialogOnLoad |->
     IF result.showDialogOnLoad \in {Val(TRUE), Val(FALSE)}
       THEN result.showDialogOnLoad.v ELSE TRUE,
   formValues |->
     IF result.formValues.tag = "val" THEN Val(result.formValues.v) ELSE Null]

\* A localStorage loadPreferences that takes an absent showDialogOnLoad for
\* false.
LoadPreferencesLocalDialogOff(st) ==
  IF st.formValues # Absent /\ ~JsonParses(st.formValues) THEN defaultPreferences
  ELSE [hidePinRecommendation |-> st.hidePinRecommendation = Text("true"),
        showDialogOnLoad |-> st.showDialogOnLoad = Text("true"),
        formValues |-> IF st.formValues = Absent THEN Null
                       ELSE Val(JsonParse(st.formValues))]

\* loadPreferences, localStorage backend; a parse error anywhere is caught
\* and the defaults are returned.
LoadPreferencesLocal(st) ==
  IF st.formValues # Absent /\ ~JsonParses(st.formValues) THEN defaultPreferences
  ELSE [hidePinRecommendation |-> st.hidePinRecommendation = Text("true"),
        showDialogOnLoad |-> st.showDialogOnLoad # Text("false"),
        formValues |-> IF st.formValues = Absent THEN Null
                       ELSE Val(JsonParse(st.formValues))]

\* chrome.storage.local.get(keys): the slots as they are when the request is
\* taken by the storage area.
ChromeGet(st, keys) == [k \in keys |-> st[k]]

---------------------------------------------------------------------------
(* State                                                                   *)

VARIABLES
  chromeAvail,            \* isChromeStorageAvailable(): fixed for a run
  store,                  \* chrome.storage.local or localStorage, by key
  chromeQ,                \* callbacks of chrome.storage.local.get not yet run
  timers,                 \* setTimeout callbacks not yet run
  todo,                   \* effects and promise reactions React / the
                          \* microtask queue run before the next event
  formValues,             \* PaperSearch state
  errors,
  quickCode,
  quickCodeError,
  fullYear,
  hasMountedRef,          \* PaperSearch refs that are read somewhere
  hasGeneratedInitialUrl,
  pendingSubjectRef,
  isClearData,            \* App state
  preferencesLoaded,
  showDialogOnLoad,
  dialogOpen,
  paperDetails,
  showPinRecommendation,
  budget,                 \* user events left in this session (model bound)
  ev                      \* history: the step that led to this state

storageVars == <<chromeAvail, store, chromeQ>>
searchVars == <<formValues, errors, quickCode, quickCodeError, fullYear>>
refVars == <<hasMountedRef, hasGeneratedInitialUrl, pendingSubjectRef>>
appVars == <<isClearData, preferencesLoaded, showDialogOnLoad, dialogOpen,
             paperDetails, showPinRecommendation>>
vars == <<storageVars, timers, todo, searchVars, refVars, appVars, budget, ev>>

\* Bound of the model: at most this many saveFormValues reads of the
\* extension backend are in flight when the user starts another one.
MaxPending == 1

\* Bound of the model: the user events (clicks, edits, submits) of a session.
MaxEvents == 3

DefaultForm ==
  [curriculum |-> ALevel, subject |-> "", paperType |-> <<>>,
   variant |-> <<>>, season |-> "", year |-> <<>>]

NoErrors == [paperType |-> NoError, variant |-> NoError, year |-> NoError]

NoDetails == [link |-> <<>>]

\* History of a step: its name; whether it ran generateUrl to the end, and
\* with which isQuickSearch and showDialog; whether it is the completion of a
\* request that was in flight when a clear ran.
Event(name) ==
  [name |-> name, made |-> FALSE, quick |-> FALSE, show |-> FALSE, stale |-> FALSE]

\* generateUrl returns early when the subject is not in SUBJECTS.
Made(values) == FindSubjectById(values.subject) # NoSubject

GenEvent(name, values, showDialog, isQuickSearch, stale) ==
  IF Made(values)
    THEN [name |-> name, made |-> TRUE, quick |-> isQuickSearch,
          show |-> showDialog, stale |-> stale]
  ELSE [Event(name) EXCEPT !.stale = stale]

\* The prop paperType of PaperSearch: the document type of the link.
paperType == "qp"

\* What the user can type or pick (bounds of the model).
PaperTypeInputs == {<<"4">>, <<"0">>}
VariantInputs == {<<"2">>}
SeasonInputs == {"s"}
YearInputs == {<<"2", "0", "2", "0">>, <<"2", "0", "0", "8">>}

Code(subj, pn, season, yy) ==
  subj \o <<"/">> \o pn \o <<"/">> \o season \o <<"/">> \o yy

QuickCodeInputs ==
  { Code(<<"9", "7", "0", "2">>, <<"4", "2">>, <<"M", "/", "J">>, <<"2", "0">>),
    Code(<<"0", "4", "7", "8">>, <<"1", "2">>, <<"O", "/", "N">>, <<"1", "9">>),
    Code(<<"9", "7", "0", "1">>, <<"0", "2">>, <<"M", "/", "J">>, <<"2", "0">>),
    Code(<<"0", "0", "0", "0">>, <<"1", "1">>, <<"M", "/", "J">>, <<"2", "0">>),
    <<"9", "7", "0", "1", "/", "4">> }

\* What an earlier session can have left in storage: nothing, or the form
\* and quick code of its last edits, with or without the dialog preference,
\* or a form whose year is out of range.
StoredForm ==
  [curriculum |-> ALevel, subject |-> "chemistry-9701", paperType |-> <<"4">>,
   variant |-> <<"2">>, season |-> "s", year |-> <<"2", "0">>]

StoredQuickCode ==
  Code(<<"9", "7", "0", "2">>, <<"4", "2">>, <<"M", "/", "J">>, <<"2", "0">>)

\* The storage an earlier session leaves by saveFormValues(StoredForm),
\* saveQuickSearchValues(StoredQuickCode) on an empty store.
UsedStore(chrome) ==
  LET withForm ==
        IF chrome
          THEN SaveFormValuesChromeCallback(EmptyStore, Absent, StoredForm)
        ELSE SaveFormValuesLocal(EmptyStore, StoredForm)
  IN SaveQuickSearchValues(chrome, withForm, StoredQuickCode)

\* The storage an earlier session leaves when its last edit typed the year
\* 2008 into the form: updateFormField saves the year "08" whatever
\* validateYear says.
StaleYearStore(chrome) ==
  LET values == [StoredForm EXCEPT !.year = <<"0", "8">>]
  IN IF chrome
       THEN SaveFormValuesChromeCallback(UsedStore(chrome),
                                         UsedStore(chrome).formValues, values)
     ELSE SaveFormValuesLocal(UsedStore(chrome), values)

InitStores(chrome) ==
  { EmptyStore,
    UsedStore(chrome),
    SavePreference(chrome, UsedStore(chrome), "showDialogOnLoad", FALSE),
    StaleYearStore(chrome) }

PrefKeys == {"hidePinRecommendation", "showDialogOnLoad", "formValues"}

\* App's mount effect calls loadPreferences(): on the extension backend the
\* get is in flight, on localStorage the promise is already resolved and its
\* reaction is queued.
Init ==
  /\ chromeAvail \in BOOLEAN
  /\ store \in InitStores(chromeAvail)
  /\ chromeQ = IF chromeAvail
                 THEN <<[op |-> "loadPrefs", stale |-> FALSE,
                         result |-> ChromeGet(store, PrefKeys)]>>
               ELSE <<>>
  /\ todo = IF chromeAvail THEN <<>>
            ELSE <<[k |-> "prefsThen", r |-> LoadPreferencesLocal(store)]>>
  /\ timers = <<>>
  /\ formValues = DefaultForm
  /\ errors = NoErrors
  /\ quickCode = <<>>
  /\ quickCodeError = NoError
  /\ fullYear = <<>>
  /\ hasMountedRef = FALSE
  /\ hasGeneratedInitialUrl = FALSE
  /\ pendingSubjectRef = ""
  /\ isClearData = FALSE
  /\ preferencesLoaded = FALSE
  /\ showDialogOnLoad = FALSE
  /\ dialogOpen = FALSE
  /\ paperDetails = NoDetails
  /\ showPinRecommendation = TRUE
  /\ budget = MaxEvents
  /\ ev = Event("mount")

---------------------------------------------------------------------------
(* Scheduling                                                              *)

\* Nothing is left to run from the last event: React has flushed its effects
\* and the microtask queue is empty, so the next task (a user event, a
\* storage callback, a timer) can start.
Idle == todo = <<>>

\* The page behind the modal dialog takes no input while the dialog is open.
PageIdle == Idle /\ ~dialogOpen
DialogIdle == Idle /\ dialogOpen

\* A user event spends one unit of the session's budget.
UserEvent == budget > 0 /\ budget' = budget - 1
PageEvent == PageIdle /\ UserEvent
DialogEvent == DialogIdle /\ UserEvent

\* The effects of PaperSearch whose dependencies changed in this step, in
\* declaration order.  generateUrl is rebuilt when onLinkGenerated is, and
\* handlePaperGenerated is rebuilt when dialogOpen or showDialogOnLoad change.
\* An effect run that cannot act (isClearData false, no pending subject,
\* preferences not loaded or hasMountedRef set) changes nothing and is left out.
EffectsDue ==
  LET generateUrlChanged ==
        dialogOpen' # dialogOpen \/ showDialogOnLoad' # showDialogOnLoad
  IN (IF isClearData' /\ ~isClearData THEN <<[k |-> "clearEffect"]>> ELSE <<>>)
     \o (IF /\ pendingSubjectRef' # ""
            /\ \/ formValues'.curriculum # formValues.curriculum
               \/ quickCode' # quickCode
               \/ generateUrlChanged
           THEN <<[k |-> "pendingSubjectEffect"]>> ELSE <<>>)
     \o (IF /\ \/ preferencesLoaded' # preferencesLoaded
               \/ showDialogOnLoad' # showDialogOnLoad
               \/ generateUrlChanged
            /\ preferencesLoaded'
            /\ ~hasMountedRef'
           THEN <<[k |-> "loadEffect"]>> ELSE <<>>)

Schedule(rest) == todo' = rest \o EffectsDue

\* saveFormValues(values): on the extension backend the get is issued and
\* its callback queued with what the storage area holds now; on localStorage
\* the write is done at once.
SaveFormValues(values) ==
  IF chromeAvail
    THEN /\ chromeQ' = Append(chromeQ, [op |-> "save", result |-> store.formValues,
                                        values |-> values, stale |-> FALSE])
         /\ store' = store
  ELSE /\ store' = SaveFormValuesLocal(store, values)
       /\ chromeQ' = chromeQ

---------------------------------------------------------------------------
(* generateUrl and the App's handlePaperGenerated                          *)

\* seasonObj ? seasonObj.label : ""
SeasonLabel(seasonId) == FindSeason(seasonId).label

\* The link of PaperSearch.generateUrl, segment by segment:
\* https://bestexamhelp.com/exam/<curriculum>/<subject>/<year>/
\*   <subjectCode>_<seasonId><shortYear>_<paperType>_<paperNumber>.pdf
SearchUrl(values) ==
  [curriculum |-> values.curriculum,
   subject |-> values.subject,
   year |-> <<"2", "0">> \o values.year,
   subjectCode |-> FindSubjectById(values.subject).code,
   seasonId |-> values.season,
   shortYear |-> values.year,
   docType |-> paperType,
   paperNumber |-> values.paperType \o values.variant]

SearchDetails(values) ==
  [link |-> SearchUrl(values),
   subjectCode |-> FindSubjectById(values.subject).code,
   subjectName |-> FindSubjectById(values.subject).label,
   paperNumber |-> values.paperType \o values.variant,
   season |-> SeasonLabel(values.season),
   year |-> values.year]

\* generateUrl(values, showDialog, isQuickSearch) as the closure built in a
\* render where dialogOpen was seenDialogOpen.  It owns the variables below.
genVars ==
  <<hasGeneratedInitialUrl, paperDetails, dialogOpen, quickCode, quickCodeError>>

generateUrl(values, showDialog, isQuickSearch, seenDialogOpen) ==
  IF FindSubjectById(values.subject) = NoSubject THEN UNCHANGED genVars
  ELSE /\ hasGeneratedInitialUrl' = TRUE
       \* handlePaperGenerated(url, details, showDialog, isQuickSearch)
       /\ paperDetails' =
            IF paperDetails = NoDetails \/ paperDetails.link # SearchUrl(values)
              THEN SearchDetails(values) ELSE paperDetails
       /\ dialogOpen' = IF showDialog /\ ~seenDialogOpen THEN TRUE ELSE dialogOpen
       \* back in generateUrl
       /\ quickCode' = generateQuickCode(values)
       /\ quickCodeError' = NoError

---------------------------------------------------------------------------
(* PaperSearch: the manual form                                            *)

\* value.replace(/\D/g, "")
RECURSIVE KeepDigits(_)
KeepDigits(value) ==
  IF value = <<>> THEN <<>>
  ELSE (IF Head(value) \in Digits THEN <<Head(value)>> ELSE <<>>)
         \o KeepDigits(Tail(value))

\* s.slice(0, n)
SliceTo(value, n) == SubSeq(value, 1, IF Len(value) < n THEN Len(value) ELSE n)

\* s.slice(-2).padStart(2, "0")
LastTwoDigits(value) ==
  LET last == IF Len(value) <= 2 THEN value
              ELSE SubSeq(value, Len(value) - 1, Len(value))
  IN IF Len(last) = 0 THEN <<"0", "0">>
     ELSE IF Len(last) = 1 THEN <<"0">> \o last
     ELSE last

\* Object.values(errors).some(e => e)
hasErrors(errs) == \E k \in DOMAIN errs : errs[k] # NoError

\* An isFormValid without the lower bound of the year.
isFormValidNoLowerBound(values, errs, currentYear) ==
  LET yearNum == IF values.year # <<>>
                   THEN parseInt(<<"2", "0">> \o values.year) ELSE 0
  IN /\ values.curriculum # ""
     /\ values.subject # ""
     /\ Len(values.paperType) = 1
     /\ values.paperType # <<"0">>
     /\ Len(values.variant) = 1
     /\ values.season # ""
     /\ Len(values.year) = 2
     /\ yearNum <= currentYear
     /\ ~hasErrors(errs)

isFormValid(values, errs, currentYear) ==
  LET yearNum == IF values.year # <<>>
                   THEN parseInt(<<"2", "0">> \o values.year) ELSE 0
  IN /\ values.curriculum # ""
     /\ values.subject # ""
     /\ Len(values.paperType) = 1
     /\ values.paperType # <<"0">>
     /\ Len(values.variant) = 1
     /\ values.season # ""
     /\ Len(values.year) = 2
     /\ yearNum >= 2009
     /\ yearNum <= currentYear
     /\ ~hasErrors(errs)

\* What a form edit leaves alone.
editFrame ==
  <<chromeAvail, timers, quickCode, quickCodeError, refVars, appVars>>

\* updateFormField(field, value): set the field and save the whole form.
updateFormField(field, value) ==
  /\ formValues' = [formValues EXCEPT ![field] = value]
  /\ SaveFormValues(formValues')

\* A new get may be started by the user only below the bound.
CanSave == chromeAvail => Len(chromeQ) < MaxPending

\* A curriculum change that keeps the subject selected.
handleCurriculumChangeKeepsSubject ==
  \E value \in {CURRICULUMS[i] : i \in 1..Len(CURRICULUMS)} :
    /\ PageEvent /\ CanSave
    /\ value # formValues.curriculum
    /\ formValues' = [formValues EXCEPT !.curriculum = value]
    /\ SaveFormValues(formValues')
    /\ ev' = Event("handleCurriculumChange")
    /\ UNCHANGED <<errors, fullYear, editFrame>>
    /\ Schedule(todo)

handleCurriculumChange ==
  \E value \in {CURRICULUMS[i] : i \in 1..Len(CURRICULUMS)} :
    /\ PageEvent /\ CanSave
    /\ value # formValues.curriculum
    /\ formValues' = [formValues EXCEPT !.curriculum = value, !.subject = ""]
    /\ SaveFormValues(formValues')
    /\ ev' = Event("handleCurriculumChange")
    /\ UNCHANGED <<errors, fullYear, editFrame>>
    /\ Schedule(todo)

\* The options of the subject select are filteredSubjects.
handleSubjectChange ==
  \E value \in filteredSubjects(formValues.curriculum) :
    /\ PageEvent /\ CanSave
    /\ value # formValues.subject
    /\ updateFormField("subject", value)
    /\ ev' = Event("handleSubjectChange")
    /\ UNCHANGED <<errors, fullYear, editFrame>>
    /\ Schedule(todo)

handleSeasonChange ==
  \E value \in SeasonInputs :
    /\ PageEvent /\ CanSave
    /\ value # formValues.season
    /\ updateFormField("season", value)
    /\ ev' = Event("handleSeasonChange")
    /\ UNCHANGED <<errors, fullYear, editFrame>>
    /\ Schedule(todo)

handlePaperTypeChange ==
  \E value \in PaperTypeInputs :
    LET numericValue == SliceTo(KeepDigits(value), 1)
    IN /\ PageEvent /\ CanSave
       /\ updateFormField("paperType", numericValue)
       /\ errors' = [errors EXCEPT !.paperType = validatePaperType(numericValue)]
       /\ ev' = Event("handlePaperTypeChange")
       /\ UNCHANGED <<fullYear, editFrame>>
       /\ Schedule(todo)

handleVariantChange ==
  \E value \in VariantInputs :
    LET numericValue == SliceTo(KeepDigits(value), 1)
    IN /\ PageEvent /\ CanSave
       /\ updateFormField("variant", numericValue)
       /\ errors' = [errors EXCEPT !.variant = validateVariant(numericValue)]
       /\ ev' = Event("handleVariantChange")
       /\ UNCHANGED <<fullYear, editFrame>>
       /\ Schedule(todo)

handleYearChange ==
  \E value \in YearInputs :
    LET numericValue == SliceTo(KeepDigits(value), 4)
    IN /\ PageEvent /\ CanSave
       /\ fullYear' = numericValue
       /\ updateFormField("year", LastTwoDigits(numericValue))
       /\ errors' = [errors EXCEPT !.year = validateYear(numericValue, CurrentYear)]
       /\ ev' = Event("handleYearChange")
       /\ UNCHANGED editFrame
       /\ Schedule(todo)

\* handleFormSubmit when isFormValid.
handleFormSubmit ==
  /\ PageEvent /\ CanSave
  /\ isFormValid(formValues, errors, CurrentYear)
  /\ SaveFormValues(formValues)
  /\ generateUrl(formValues, TRUE, FALSE, dialogOpen)
  /\ ev' = GenEvent("handleFormSubmit", formValues, TRUE, FALSE, FALSE)
  /\ UNCHANGED <<chromeAvail, timers, formValues, errors, fullYear, hasMountedRef,
                 pendingSubjectRef, isClearData, preferencesLoaded,
                 showDialogOnLoad, showPinRecommendation>>
  /\ Schedule(todo)

\* handleFormSubmit when the form is not valid: the handler returns at once.
handleFormSubmitInvalid ==
  /\ PageEvent
  /\ ~isFormValid(formValues, errors, CurrentYear)
  /\ ev' = Event("handleFormSubmitInvalid")
  /\ UNCHANGED <<storageVars, timers, todo, searchVars, refVars, appVars>>

---------------------------------------------------------------------------
(* PaperSearch: the quick search                                           *)

handleQuickCodeChange ==
  \E value \in QuickCodeInputs \cup {<<>>} :
    /\ PageEvent
    /\ value # quickCode
    /\ quickCode' = value
    /\ quickCodeError' = validateQuickCode(value, CurrentYear)
    /\ store' = SaveQuickSearchValues(chromeAvail, store, value)
    /\ ev' = Event("handleQuickCodeChange")
    /\ UNCHANGED <<chromeAvail, chromeQ, timers, formValues, errors, fullYear,
                   refVars, appVars>>
    /\ Schedule(todo)

\* A rejected submit that empties the subject of the form, as the branch
\* for another curriculum does, before it returns.
handleQuickCodeSubmitInvalidDropsSubject ==
  LET error == validateQuickCode(quickCode, CurrentYear)
  IN /\ PageEvent
     /\ error # NoError \/ quickCode = <<>>
     /\ quickCodeError' = error
     /\ formValues' = [formValues EXCEPT !.subject = ""]
     /\ ev' = Event("handleQuickCodeSubmitInvalid")
     /\ UNCHANGED <<storageVars, timers, todo, errors, quickCode,
                    fullYear, refVars, appVars>>

\* handleQuickCodeSubmit, the code empty or rejected by validateQuickCode:
\* only the error is shown.
handleQuickCodeSubmitInvalid ==
  LET error == validateQuickCode(quickCode, CurrentYear)
  IN /\ PageEvent
     /\ error # NoError \/ quickCode = <<>>
     /\ quickCodeError' = error
     /\ ev' = Event("handleQuickCodeSubmitInvalid")
     /\ UNCHANGED <<storageVars, timers, todo, formValues, errors, quickCode,
                    fullYear, refVars, appVars>>

\* A submit that fills the form and generates the link in the same step as
\* the curriculum change, without waiting for the subject list.
handleQuickCodeSubmitUndeferred ==
  LET parsed == parseQuickCode(quickCode)
      subject == FindSubjectByCode(parsed.subjectCode)
      newFormValues == FormFromParsed(parsed, subject)
  IN /\ PageEvent /\ CanSave
     /\ quickCode # <<>> /\ validateQuickCode(quickCode, CurrentYear) = NoError
     /\ parsed # NoParse /\ subject # NoSubject
     /\ formValues.curriculum # subject.curriculum
     /\ formValues' = newFormValues
     /\ SaveFormValues(newFormValues)
     /\ fullYear' = <<"2", "0">> \o parsed.year
     /\ generateUrl(newFormValues, TRUE, TRUE, dialogOpen)
     /\ ev' = GenEvent("handleQuickCodeSubmitPending", newFormValues, TRUE, TRUE, FALSE)
     /\ UNCHANGED <<chromeAvail, timers, errors, hasMountedRef, pendingSubjectRef,
                    isClearData, preferencesLoaded, showDialogOnLoad,
                    showPinRecommendation>>
     /\ Schedule(todo)

\* handleQuickCodeSubmit, the code valid, the subject of another curriculum:
\* the curriculum is switched and the subject kept pending.
handleQuickCodeSubmitPending ==
  LET parsed == parseQuickCode(quickCode)
      subject == FindSubjectByCode(parsed.subjectCode)
  IN /\ PageEvent
     /\ quickCode # <<>> /\ validateQuickCode(quickCode, CurrentYear) = NoError
     /\ parsed # NoParse /\ subject # NoSubject
     /\ formValues.curriculum # subject.curriculum
     /\ pendingSubjectRef' = subject.id
     /\ formValues' = [formValues EXCEPT !.curriculum = subject.curriculum,
                                         !.subject = ""]
     /\ ev' = Event("handleQuickCodeSubmitPending")
     /\ UNCHANGED <<storageVars, timers, errors, quickCode, quickCodeError,
                    fullYear, hasMountedRef, hasGeneratedInitialUrl, appVars>>
     /\ Schedule(todo)

\* handleQuickCodeSubmit, the code valid, the subject of the selected
\* curriculum: the form is filled, saved and the link generated.
handleQuickCodeSubmitDirect ==
  LET parsed == parseQuickCode(quickCode)
      subject == FindSubjectByCode(parsed.subjectCode)
      newFormValues == FormFromParsed(parsed, subject)
  IN /\ PageEvent /\ CanSave
     /\ quickCode # <<>> /\ validateQuickCode(quickCode, CurrentYear) = NoError
     /\ parsed # NoParse /\ subject # NoSubject
     /\ formValues.curriculum = subject.curriculum
     /\ formValues' = newFormValues
     /\ SaveFormValues(newFormValues)
     /\ fullYear' = <<"2", "0">> \o parsed.year
     /\ generateUrl(newFormValues, TRUE, TRUE, dialogOpen)
     /\ ev' = GenEvent("handleQuickCodeSubmitDirect", newFormValues, TRUE, TRUE, FALSE)
     /\ UNCHANGED <<chromeAvail, timers, errors, hasMountedRef, pendingSubjectRef,
                    isClearData, preferencesLoaded, showDialogOnLoad,
                    showPinRecommendation>>
     /\ Schedule(todo)

\* A pending-subject effect that leaves the pending subject recorded.
pendingSubjectEffectKeepsPending ==
  LET pendingSubject == pendingSubjectRef
      subjectExists ==
        \E i \in 1..Len(SUBJECTS) :
          SUBJECTS[i].id = pendingSubject
            /\ SUBJECTS[i].curriculum = formValues.curriculum
      parsed == parseQuickCode(quickCode)
      subject == FindSubjectByCode(parsed.subjectCode)
      newFormValues == FormFromParsed(parsed, subject)
      applies == subjectExists /\ parsed # NoParse /\ subject # NoSubject
  IN /\ todo # <<>> /\ Head(todo).k = "pendingSubjectEffect"
     /\ IF pendingSubjectRef # "" /\ applies
          THEN /\ formValues' = newFormValues
               /\ SaveFormValues(newFormValues)
               /\ fullYear' = <<"2", "0">> \o parsed.year
               /\ generateUrl(newFormValues, TRUE, TRUE, dialogOpen)
               /\ ev' = GenEvent("pendingSubjectEffect", newFormValues, TRUE, TRUE, FALSE)
        ELSE /\ UNCHANGED <<formValues, store, chromeQ, fullYear, genVars>>
             /\ ev' = Event("pendingSubjectEffect")
     /\ pendingSubjectRef' = pendingSubjectRef
     /\ UNCHANGED <<chromeAvail, timers, errors, hasMountedRef, isClearData,
                    preferencesLoaded, showDialogOnLoad, showPinRecommendation,
                    budget>>
     /\ Schedule(Tail(todo))

\* The effect on [formValues.curriculum, quickCode, generateUrl] with a
\* subject pending.
pendingSubjectEffect ==
  LET pendingSubject == pendingSubjectRef
      subjectExists ==
        \E i \in 1..Len(SUBJECTS) :
          SUBJECTS[i].id = pendingSubject
            /\ SUBJECTS[i].curriculum = formValues.curriculum
      parsed == parseQuickCode(quickCode)
      subject == FindSubjectByCode(parsed.subjectCode)
      newFormValues == FormFromParsed(parsed, subject)
      applies == subjectExists /\ parsed # NoParse /\ subject # NoSubject
  IN /\ todo # <<>> /\ Head(todo).k = "pendingSubjectEffect"
     /\ IF pendingSubjectRef # "" /\ applies
          THEN /\ formValues' = newFormValues
               /\ SaveFormValues(newFormValues)
               /\ fullYear' = <<"2", "0">> \o parsed.year
               /\ generateUrl(newFormValues, TRUE, TRUE, dialogOpen)
               /\ ev' = GenEvent("pendingSubjectEffect", newFormValues, TRUE, TRUE, FALSE)
        ELSE /\ UNCHANGED <<formValues, store, chromeQ, fullYear, genVars>>
             /\ ev' = Event("pendingSubjectEffect")
     /\ pendingSubjectRef' =
          IF pendingSubjectRef # "" /\ subjectExists THEN "" ELSE pendingSubjectRef
     /\ UNCHANGED <<chromeAvail, timers, errors, hasMountedRef, isClearData,
                    preferencesLoaded, showDialogOnLoad, showPinRecommendation,
                    budget>>
     /\ Schedule(Tail(todo))

---------------------------------------------------------------------------
(* Clearing                                                                *)

\* The Clear All button of PaperSearch: setIsClearData(true).
clickClearAll ==
  /\ PageEvent
  /\ isClearData' = TRUE
  /\ ev' = Event("clickClearAll")
  /\ UNCHANGED <<storageVars, timers, searchVars, refVars, preferencesLoaded,
                 showDialogOnLoad, dialogOpen, paperDetails,
                 showPinRecommendation>>
  /\ Schedule(todo)

\* The Clear Data button of the dialog: App.handleClearData.
handleClearData ==
  /\ DialogEvent
  /\ paperDetails' = NoDetails
  /\ isClearData' = TRUE
  /\ dialogOpen' = FALSE
  /\ ev' = Event("handleClearData")
  /\ UNCHANGED <<storageVars, timers, searchVars, refVars, preferencesLoaded,
                 showDialogOnLoad, showPinRecommendation>>
  /\ Schedule(todo)

\* History only: the requests in flight when the clear ran are marked.
MarkStale(q) == [i \in 1..Len(q) |-> [q[i] EXCEPT !.stale = TRUE]]

\* A clear effect that also resets hasMountedRef.
clearEffectResetsMounted ==
  /\ todo # <<>> /\ Head(todo).k = "clearEffect"
  /\ isClearData
  /\ formValues' = DefaultForm
  /\ quickCode' = <<>>
  /\ fullYear' = <<>>
  /\ quickCodeError' = NoError
  /\ errors' = NoErrors
  /\ store' = ClearAllValues(chromeAvail, store)
  /\ isClearData' = FALSE
  /\ hasGeneratedInitialUrl' = FALSE
  /\ hasMountedRef' = FALSE
  /\ chromeQ' = MarkStale(chromeQ)
  /\ timers' = MarkStale(timers)
  /\ ev' = Event("clearEffect")
  /\ UNCHANGED <<chromeAvail, pendingSubjectRef,
                 preferencesLoaded, showDialogOnLoad, dialogOpen, paperDetails,
                 showPinRecommendation, budget>>
  /\ Schedule(Tail(todo))

\* The effect on [isClearData] with isClearData set.
clearEffect ==
  /\ todo # <<>> /\ Head(todo).k = "clearEffect"
  /\ isClearData
  /\ formValues' = DefaultForm
  /\ quickCode' = <<>>
  /\ fullYear' = <<>>
  /\ quickCodeError' = NoError
  /\ errors' = NoErrors
  /\ store' = ClearAllValues(chromeAvail, store)
  /\ isClearData' = FALSE
  /\ hasGeneratedInitialUrl' = FALSE
  /\ chromeQ' = MarkStale(chromeQ)
  /\ timers' = MarkStale(timers)
  /\ ev' = Event("clearEffect")
  /\ UNCHANGED <<chromeAvail, hasMountedRef, pendingSubjectRef,
                 preferencesLoaded, showDialogOnLoad, dialogOpen, paperDetails,
                 showPinRecommendation, budget>>
  /\ Schedule(Tail(todo))

---------------------------------------------------------------------------
(* App: preferences and the dialog                                         *)

handleClosePinRecommendation ==
  /\ PageEvent
  /\ showPinRecommendation
  /\ showPinRecommendation' = FALSE
  /\ store' = SavePreference(chromeAvail, store, "hidePinRecommendation", TRUE)
  /\ ev' = Event("handleClosePinRecommendation")
  /\ UNCHANGED <<chromeAvail, chromeQ, timers, todo, searchVars, refVars,
                 isClearData, preferencesLoaded, showDialogOnLoad, dialogOpen,
                 paperDetails>>

\* The switch in the dialog.
handleDialogPreferenceChange ==
  \E checked \in BOOLEAN :
    /\ DialogEvent
    /\ checked # showDialogOnLoad
    /\ showDialogOnLoad' = checked
    /\ store' = SavePreference(chromeAvail, store, "showDialogOnLoad", checked)
    /\ ev' = Event("handleDialogPreferenceChange")
    /\ UNCHANGED <<chromeAvail, chromeQ, timers, searchVars, refVars, isClearData,
                   preferencesLoaded, dialogOpen, paperDetails,
                   showPinRecommendation>>
    /\ Schedule(todo)

\* The dialog is closed: handleDialogOpenChange(false).
handleDialogOpenChange ==
  /\ DialogEvent
  /\ dialogOpen' = FALSE
  /\ ev' = Event("handleDialogOpenChange")
  /\ UNCHANGED <<storageVars, timers, searchVars, refVars, isClearData,
                 preferencesLoaded, showDialogOnLoad, paperDetails,
                 showPinRecommendation>>
  /\ Schedule(todo)

\* initPreferences after `await loadPreferences()`.
InitPreferencesThen(preferences, rest) ==
  LET formYear == IF preferences.formValues # Null
                     /\ "year" \in DOMAIN preferences.formValues.v
                    THEN preferences.formValues.v.year ELSE <<>>
      yearNum == parseInt(<<"2", "0">> \o formYear)
  IN /\ showPinRecommendation' = ~preferences.hidePinRecommendation
     /\ showDialogOnLoad' =
          IF formYear # <<>> /\ (yearNum > CurrentYear \/ yearNum < 2009)
            THEN FALSE ELSE preferences.showDialogOnLoad
     /\ preferencesLoaded' = TRUE
     /\ ev' = Event("initPreferences")
     /\ UNCHANGED <<chromeAvail, store, timers, searchVars, refVars, isClearData,
                    dialogOpen, paperDetails, budget>>
     /\ Schedule(rest)

initPreferences ==
  \/ /\ Idle /\ chromeQ # <<>> /\ Head(chromeQ).op = "loadPrefs"
     /\ chromeQ' = Tail(chromeQ)
     /\ InitPreferencesThen(LoadPreferencesChrome(Head(chromeQ).result), todo)
  \/ /\ todo # <<>> /\ Head(todo).k = "prefsThen"
     /\ chromeQ' = chromeQ
     /\ InitPreferencesThen(Head(todo).r, Tail(todo))

---------------------------------------------------------------------------
(* Loading the stored form and quick code                                  *)

\* The effect on [preferencesLoaded, showDialogOnLoad, generateUrl]: the two
\* loads are started once.  The reactions close over the showDialogOnLoad
\* prop and the generateUrl of this render.
loadEffect ==
  /\ todo # <<>> /\ Head(todo).k = "loadEffect"
  /\ IF preferencesLoaded /\ ~hasGeneratedInitialUrl /\ ~hasMountedRef
       THEN /\ hasMountedRef' = TRUE
            /\ IF chromeAvail
                 THEN /\ chromeQ' = chromeQ \o
                           << [op |-> "loadQuick", stale |-> FALSE,
                               result |-> store.quickSearchValues],
                              [op |-> "loadForm", stale |-> FALSE,
                               result |-> store.formValues,
                               showDialogOnLoad |-> showDialogOnLoad,
                               seenDialogOpen |-> dialogOpen] >>
                      /\ todo' = Tail(todo)
               ELSE /\ chromeQ' = chromeQ
                    /\ todo' = Tail(todo) \o
                         << [k |-> "loadQuickThen", stale |-> FALSE,
                             r |-> LoadQuickSearchValuesLocal(store)],
                            [k |-> "loadFormThen", stale |-> FALSE,
                             r |-> LoadFormValuesLocal(store),
                             showDialogOnLoad |-> showDialogOnLoad,
                             seenDialogOpen |-> dialogOpen] >>
     ELSE /\ UNCHANGED <<hasMountedRef, chromeQ>>
          /\ todo' = Tail(todo)
  /\ ev' = Event("loadEffect")
  /\ UNCHANGED <<chromeAvail, store, timers, searchVars, hasGeneratedInitialUrl,
                 pendingSubjectRef, appVars, budget>>

\* loadQuickSearchValues().then(savedQuickCode => ...)
LoadQuickReaction(savedQuickCode, item, rest) ==
  /\ IF savedQuickCode # Null
       THEN /\ quickCode' = savedQuickCode.v
            /\ quickCodeError' = validateQuickCode(savedQuickCode.v, CurrentYear)
     ELSE UNCHANGED <<quickCode, quickCodeError>>
  /\ ev' = [Event("loadQuickThen") EXCEPT !.stale = item.stale]
  /\ UNCHANGED <<chromeAvail, store, timers, formValues, errors, fullYear,
                 refVars, appVars, budget>>
  /\ Schedule(rest)

loadQuickThen ==
  \/ /\ Idle /\ chromeQ # <<>> /\ Head(chromeQ).op = "loadQuick"
     /\ chromeQ' = Tail(chromeQ)
     /\ LoadQuickReaction(LoadQuickSearchValuesChrome(Head(chromeQ).result),
                          Head(chromeQ), todo)
  \/ /\ todo # <<>> /\ Head(todo).k = "loadQuickThen"
     /\ chromeQ' = chromeQ
     /\ LoadQuickReaction(Head(todo).r, Head(todo), Tail(todo))

\* savedValues.subject && savedValues.paperType && ... && savedValues.year
AllPresent(savedValues) ==
  /\ savedValues.subject # ""
  /\ savedValues.paperType # <<>>
  /\ savedValues.variant # <<>>
  /\ savedValues.season # ""
  /\ savedValues.year # <<>>

\* loadFormValues().then(savedValues => ...)
LoadFormReaction(savedValues, item, rest) ==
  /\ IF savedValues # Null
       THEN /\ formValues' = savedValues.v
            /\ fullYear' =
                 IF savedValues.v.year # <<>>
                   THEN (IF Len(savedValues.v.year) = 2
                           THEN <<"2", "0">> \o savedValues.v.year
                         ELSE savedValues.v.year)
                 ELSE fullYear
            /\ timers' =
                 IF AllPresent(savedValues.v)
                   THEN Append(timers, [values |-> savedValues.v,
                                        showDialog |-> item.showDialogOnLoad,
                                        seenDialogOpen |-> item.seenDialogOpen,
                                        stale |-> item.stale])
                 ELSE timers
     ELSE UNCHANGED <<formValues, fullYear, timers>>
  /\ ev' = [Event("loadFormThen") EXCEPT !.stale = item.stale]
  /\ UNCHANGED <<chromeAvail, store, errors, quickCode, quickCodeError,
                 refVars, appVars, budget>>
  /\ Schedule(rest)

loadFormThen ==
  \/ /\ Idle /\ chromeQ # <<>> /\ Head(chromeQ).op = "loadForm"
     /\ chromeQ' = Tail(chromeQ)
     /\ LoadFormReaction(LoadFormValuesChrome(Head(chromeQ).result),
                         Head(chromeQ), todo)
  \/ /\ todo # <<>> /\ Head(todo).k = "loadFormThen"
     /\ chromeQ' = chromeQ
     /\ LoadFormReaction(Head(todo).r, Head(todo), Tail(todo))

\* setTimeout(() => generateUrl(savedValues, showDialogOnLoad ?? false, false), 0)
loadTimer ==
  /\ Idle /\ timers # <<>>
  /\ timers' = Tail(timers)
  /\ generateUrl(Head(timers).values, Head(timers).showDialog, FALSE,
                 Head(timers).seenDialogOpen)
  /\ ev' = GenEvent("loadTimer", Head(timers).values, Head(timers).showDialog,
                    FALSE, Head(timers).stale)
  /\ UNCHANGED <<storageVars, formValues, errors, fullYear, hasMountedRef,
                 pendingSubjectRef, isClearData, preferencesLoaded,
                 showDialogOnLoad, showPinRecommendation, budget>>
  /\ Schedule(todo)

\* The callback of the get of saveFormValues on the extension backend.
saveFormValuesCallback ==
  /\ Idle /\ chromeQ # <<>> /\ Head(chromeQ).op = "save"
  /\ store' = SaveFormValuesChromeCallback(store, Head(chromeQ).result,
                                           Head(chromeQ).values)
  /\ chromeQ' = Tail(chromeQ)
  /\ ev' = [Event("saveFormValuesCallback") EXCEPT !.stale = Head(chromeQ).stale]
  /\ UNCHANGED <<chromeAvail, timers, todo, searchVars, refVars, appVars, budget>>

---------------------------------------------------------------------------
(* The program                                                             *)

Next ==
  \/ handleCurriculumChange
  \/ handleSubjectChange
  \/ handleSeasonChange
  \/ handlePaperTypeChange
  \/ handleVariantChange
  \/ handleYearChange
  \/ handleFormSubmit
  \/ handleFormSubmitInvalid
  \/ handleQuickCodeChange
  \/ handleQuickCodeSubmitInvalid
  \/ handleQuickCodeSubmitPending
  \/ handleQuickCodeSubmitDirect
  \/ pendingSubjectEffect
  \/ clickClearAll
  \/ handleClearData
  \/ clearEffect
  \/ handleClosePinRecommendation
  \/ handleDialogPreferenceChange
  \/ handleDialogOpenChange
  \/ initPreferences
  \/ loadEffect
  \/ loadQuickThen
  \/ loadFormThen
  \/ loadTimer
  \/ saveFormValuesCallback

Spec == Init /\ [][Next]_vars

---------------------------------------------------------------------------
(* The storage module on its own (storage.ts), called in any order         *)

\* Everything outside the storage module: untouched by its functions.
uiVars == <<timers, todo, searchVars, refVars, appVars>>

\* Bound of the model: gets of the extension backend in flight at once.
MaxGets == 2

\* Partial<FormValues> arguments of saveFormValues (bounds of the model).
StorePartials ==
  { [subject |-> "chemistry-9701"],
    [paperType |-> <<"4">>],
    [subject |-> "physics-9702", paperType |-> <<"1">>],
    StoredForm }

StoreQuickCodes == {StoredQuickCode, <<>>}

\* History of a call or callback of the storage module.  result: what a load
\* resolved with; read: the formValues slot a save merged into; values: the
\* argument of the save; afterClear: the load was started, and completed,
\* with no save started since the last clearAllValues.  merged and cleared
\* are carried from step to step: the arguments of the saveFormValues calls
\* since the last clear merged in call order, and whether no save was
\* started since the last clear.
Hist(name, result, read, values, afterClear, merged, cleared) ==
  [name |-> name, result |-> result, read |-> read, values |-> values,
   afterClear |-> afterClear, merged |-> merged, cleared |-> cleared]

Call(name) == Hist(name, Null, Absent, EmptyObj, FALSE, ev.merged, ev.cleared)

Resolved(name, result, afterClear) ==
  Hist(name, result, Absent, EmptyObj, afterClear, ev.merged, ev.cleared)

\* localStorage is written by the page and by anything else of its origin:
\* a store whose formValues and quickSearchValues items are not JSON, next to
\* preferences saved by savePreference.  The extension backend holds
\* structured values, which are never parsed.
CorruptStore ==
  [SavePreference(FALSE,
                  SavePreference(FALSE, EmptyStore, "hidePinRecommendation", TRUE),
                  "showDialogOnLoad", FALSE)
     EXCEPT !.formValues = Text("{"), !.quickSearchValues = Text("{")]

CorruptStores(chrome) == IF chrome THEN {} ELSE {CorruptStore}

StoreInit ==
  /\ chromeAvail \in BOOLEAN
  /\ store \in InitStores(chromeAvail) \union CorruptStores(chromeAvail)
  /\ chromeQ = <<>>
  /\ todo = <<>>
  /\ timers = <<>>
  /\ formValues = DefaultForm
  /\ errors = NoErrors
  /\ quickCode = <<>>
  /\ quickCodeError = NoError
  /\ fullYear = <<>>
  /\ hasMountedRef = FALSE
  /\ hasGeneratedInitialUrl = FALSE
  /\ pendingSubjectRef = ""
  /\ isClearData = FALSE
  /\ preferencesLoaded = FALSE
  /\ showDialogOnLoad = FALSE
  /\ dialogOpen = FALSE
  /\ paperDetails = NoDetails
  /\ showPinRecommendation = TRUE
  /\ budget = MaxEvents
  /\ ev = Hist("start", Null, Absent, EmptyObj, FALSE, EmptyObj, FALSE)

\* A call of the storage module spends one unit of the budget; a get of the
\* extension backend needs room in flight.
StoreCall == budget > 0 /\ budget' = budget - 1
CanGet == chromeAvail => Len(chromeQ) < MaxGets

saveFormValues ==
  \E values \in StorePartials :
    /\ StoreCall /\ CanGet
    /\ SaveFormValues(values)
    /\ ev' = IF chromeAvail
               THEN Hist("saveFormValues", Null, Absent, values, FALSE,
                         MergeObj(ev.merged, values), FALSE)
             ELSE Hist("saveFormValuesDone", Null, store.formValues, values, FALSE,
                       MergeObj(ev.merged, values), FALSE)
    /\ UNCHANGED <<chromeAvail, uiVars>>

\* The callback of the get of saveFormValues.
saveFormValuesGot ==
  /\ chromeQ # <<>> /\ Head(chromeQ).op = "save"
  /\ store' = SaveFormValuesChromeCallback(store, Head(chromeQ).result,
                                           Head(chromeQ).values)
  /\ chromeQ' = Tail(chromeQ)
  /\ ev' = Hist("saveFormValuesDone", Null, Head(chromeQ).result,
                Head(chromeQ).values, FALSE, ev.merged, ev.cleared)
  /\ UNCHANGED <<chromeAvail, uiVars, budget>>

saveQuickSearchValues ==
  \E code \in StoreQuickCodes :
    /\ StoreCall
    /\ store' = SaveQuickSearchValues(chromeAvail, store, code)
    /\ ev' = Hist("saveQuickSearchValues", Null, Absent, EmptyObj, FALSE,
                  ev.merged, FALSE)
    /\ UNCHANGED <<chromeAvail, chromeQ, uiVars>>

clearAllValues ==
  /\ StoreCall
  /\ store' = ClearAllValues(chromeAvail, store)
  /\ ev' = Hist("clearAllValues", Null, Absent, EmptyObj, FALSE, EmptyObj, TRUE)
  /\ UNCHANGED <<chromeAvail, chromeQ, uiVars>>

savePreference ==
  \E key \in {"hidePinRecommendation", "showDialogOnLoad"}, value \in BOOLEAN :
    /\ StoreCall
    /\ store' = SavePreference(chromeAvail, store, key, value)
    /\ ev' = Call("savePreference")
    /\ UNCHANGED <<chromeAvail, chromeQ, uiVars>>

\* A load: on the extension backend the get is started, on localStorage the
\* promise resolves in the call.
loadFormValues ==
  /\ StoreCall /\ CanGet
  /\ IF chromeAvail
       THEN /\ chromeQ' = Append(chromeQ, [op |-> "loadForm", cleared |-> ev.cleared,
                                           result |-> store.formValues])
            /\ ev' = Call("loadFormValues")
     ELSE /\ chromeQ' = chromeQ
          /\ ev' = Resolved("loadFormValuesDone", LoadFormValuesLocal(store), ev.cleared)
  /\ UNCHANGED <<chromeAvail, store, uiVars>>

loadFormValuesGot ==
  /\ chromeQ # <<>> /\ Head(chromeQ).op = "loadForm"
  /\ chromeQ' = Tail(chromeQ)
  /\ ev' = Resolved("loadFormValuesDone", LoadFormValuesChrome(Head(chromeQ).result),
                    Head(chromeQ).cleared /\ ev.cleared)
  /\ UNCHANGED <<chromeAvail, store, uiVars, budget>>

loadQuickSearchValues ==
  /\ StoreCall /\ CanGet
  /\ IF chromeAvail
       THEN /\ chromeQ' = Append(chromeQ, [op |-> "loadQuick", cleared |-> ev.cleared,
                                           result |-> store.quickSearchValues])
            /\ ev' = Call("loadQuickSearchValues")
     ELSE /\ chromeQ' = chromeQ
          /\ ev' = Resolved("loadQuickSearchValuesDone",
                            LoadQuickSearchValuesLocal(store), ev.cleared)
  /\ UNCHANGED <<chromeAvail, store, uiVars>>

loadQuickSearchValuesGot ==
  /\ chromeQ # <<>> /\ Head(chromeQ).op = "loadQuick"
  /\ chromeQ' = Tail(chromeQ)
  /\ ev' = Resolved("loadQuickSearchValuesDone",
                    LoadQuickSearchValuesChrome(Head(chromeQ).result),
                    Head(chromeQ).cleared /\ ev.cleared)
  /\ UNCHANGED <<chromeAvail, store, uiVars, budget>>

loadPreferences ==
  /\ StoreCall /\ CanGet
  /\ IF chromeAvail
       THEN /\ chromeQ' = Append(chromeQ, [op |-> "loadPrefs", cleared |-> ev.cleared,
                                           result |-> ChromeGet(store, PrefKeys)])
            /\ ev' = Call("loadPreferences")
     ELSE /\ chromeQ' = chromeQ
          /\ ev' = Resolved("loadPreferencesDone", LoadPreferencesLocal(store),
                            ev.cleared)
  /\ UNCHANGED <<chromeAvail, store, uiVars>>

loadPreferencesGot ==
  /\ chromeQ # <<>> /\ Head(chromeQ).op = "loadPrefs"
  /\ chromeQ' = Tail(chromeQ)
  /\ ev' = Resolved("loadPreferencesDone",
                    LoadPreferencesChrome(Head(chromeQ).result),
                    Head(chromeQ).cleared /\ ev.cleared)
  /\ UNCHANGED <<chromeAvail, store, uiVars, budget>>

StoreNext ==
  \/ saveFormValues
  \/ saveFormValuesGot
  \/ saveQuickSearchValues
  \/ clearAllValues
  \/ savePreference
  \/ loadFormValues
  \/ loadFormValuesGot
  \/ loadQuickSearchValues
  \/ loadQuickSearchValuesGot
  \/ loadPreferences
  \/ loadPreferencesGot

SpecStore == StoreInit /\ [][StoreNext]_vars

---------------------------------------------------------------------------
(* The quick-code codec on its own: an identifier is encoded, the code is  *)
(* decoded the way handleQuickCodeSubmit does                              *)

\* Identifiers given to generateQuickCode (bounds of the model): every
\* subject row under either curriculum, every digit as paperType and as
\* variant, the three seasons and none, four years.
CodecYears ==
  {<<"0", "9">>, <<"2", "0">>, <<"2", "6">>, <<"9", "9">>}

CodecIdentifiers ==
  [curriculum : {ALevel, IGCSE},
   subject : {SUBJECTS[i].id : i \in 1..Len(SUBJECTS)},
   paperType : {<<d>> : d \in Digits},
   variant : {<<d>> : d \in Digits},
   season : {"m", "s", "w", ""},
   year : CodecYears]

CodecInit ==
  /\ chromeAvail = FALSE
  /\ store = EmptyStore
  /\ chromeQ = <<>>
  /\ todo = <<>>
  /\ timers = <<>>
  /\ formValues \in CodecIdentifiers
  /\ errors = NoErrors
  /\ quickCode = <<>>
  /\ quickCodeError = NoError
  /\ fullYear = <<>>
  /\ hasMountedRef = FALSE
  /\ hasGeneratedInitialUrl = FALSE
  /\ pendingSubjectRef = ""
  /\ isClearData = FALSE
  /\ preferencesLoaded = FALSE
  /\ showDialogOnLoad = FALSE
  /\ dialogOpen = FALSE
  /\ paperDetails = NoDetails
  /\ showPinRecommendation = TRUE
  /\ budget = 0
  /\ ev = [name |-> "identifier", ok |-> FALSE, values |-> DefaultForm]

codecFrame ==
  <<storageVars, timers, todo, formValues, errors, quickCodeError, fullYear,
    refVars, appVars, budget>>

\* quickCode = generateQuickCode(identifier)
encodeIdentifier ==
  /\ ev.name = "identifier"
  /\ quickCode' = generateQuickCode(formValues)
  /\ ev' = [name |-> "encodeIdentifier", ok |-> FALSE, values |-> DefaultForm]
  /\ UNCHANGED codecFrame

\* parseQuickCode(quickCode), the subject row found by its code, and the
\* identifier built from the two.
decodeQuickCode ==
  LET parsed == parseQuickCode(quickCode)
      subject == FindSubjectByCode(parsed.subjectCode)
  IN /\ ev.name = "encodeIdentifier"
     /\ ev' = IF parsed # NoParse /\ subject # NoSubject
                THEN [name |-> "decodeQuickCode", ok |-> TRUE,
                      values |-> FormFromParsed(parsed, subject)]
              ELSE [name |-> "decodeQuickCode", ok |-> FALSE, values |-> DefaultForm]
     /\ UNCHANGED <<quickCode, codecFrame>>

CodecNext == encodeIdentifier \/ decodeQuickCode

SpecCodec == CodecInit /\ [][CodecNext]_vars

---------------------------------------------------------------------------
(* The pure functions on their own: validators, quick-code round trip,     *)
(* isFormComplete, generatePaperUrl and getMarkingSchemeLink, each applied *)
(* once to an argument                                                     *)

\* isFormComplete(formValues), with new Date().getFullYear() as currentYear.
isFormComplete(values, currentYear) ==
  LET yearNum == IF values.year # <<>>
                   THEN parseInt(<<"2", "0">> \o values.year) ELSE 0
  IN /\ values.curriculum # ""
     /\ values.subject # ""
     /\ Len(values.paperType) = 1
     /\ values.paperType # <<"0">>
     /\ Len(values.variant) = 1
     /\ values.season # ""
     /\ Len(values.year) = 2
     /\ yearNum >= 2009
     /\ yearNum <= currentYear

\* generatePaperUrl returns null when the subject is not in SUBJECTS.
NoPaper == [ok |-> FALSE]

\* A generatePaperUrl that appends the paper number for every document type.
generatePaperUrlAlwaysNumbered(values, documentType) ==
  LET selectedSubject == FindSubjectById(values.subject)
      paperNumber == values.paperType \o values.variant
      paperCode == selectedSubject.code \o <<"-", values.season>> \o values.year
                     \o <<"-", documentType, "-">> \o paperNumber
  IN IF selectedSubject = NoSubject THEN NoPaper
     ELSE [ok |-> TRUE,
           url |-> <<"https://bestexamhelp.com/exam/", values.curriculum, "/",
                     values.subject, "/", "2", "0">> \o values.year
                     \o <<"/">> \o paperCode \o <<".php">>,
           paperDetails |->
             [subjectCode |-> selectedSubject.code,
              subjectName |-> selectedSubject.label,
              paperNumber |-> paperNumber,
              season |-> SeasonLabel(values.season),
              year |-> values.year]]

\* generatePaperUrl(formValues, documentType).  The url is the text of the
\* template literal, piece by piece: the ids are single pieces, the digits
\* of codes, years and paper numbers are one piece each.
generatePaperUrl(values, documentType) ==
  LET selectedSubject == FindSubjectById(values.subject)
      paperNumber == values.paperType \o values.variant
      tagged == selectedSubject.code \o <<"-", values.season>> \o values.year
                  \o <<"-", documentType>>
      paperCode == IF documentType = "ms" \/ documentType = "qp"
                     THEN tagged \o <<"-">> \o paperNumber
                   ELSE tagged
  IN IF selectedSubject = NoSubject THEN NoPaper
     ELSE [ok |-> TRUE,
           url |-> <<"https://bestexamhelp.com/exam/", values.curriculum, "/",
                     values.subject, "/", "2", "0">> \o values.year
                     \o <<"/">> \o paperCode \o <<".php">>,
           paperDetails |->
             [subjectCode |-> selectedSubject.code,
              subjectName |-> selectedSubject.label,
              paperNumber |-> paperNumber,
              season |-> SeasonLabel(values.season),
              year |-> values.year]]

\* The text of the link PaperSearch.generateUrl builds, in the same pieces.
LinkText(link) ==
  <<"https://bestexamhelp.com/exam/", link.curriculum, "/", link.subject, "/">>
    \o link.year \o <<"/">> \o link.subjectCode \o <<"_", link.seasonId>>
    \o link.shortYear \o <<"_", link.docType, "_">> \o link.paperNumber
    \o <<".pdf">>

\* String.prototype.replace(pattern, replacement) with a string pattern: the
\* first occurrence only, the text unchanged when there is none.
ReplaceFirst(text, pattern, replacement) ==
  LET hits == {i \in 1..(Len(text) - Len(pattern) + 1) :
                 SubSeq(text, i, i + Len(pattern) - 1) = pattern}
  IN IF hits = {} THEN text
     ELSE SubSeq(text, 1, First(hits) - 1) \o replacement
            \o SubSeq(text, First(hits) + Len(pattern), Len(text))

\* A link rewriter that puts the examiner-report tag in place of qp.
getExaminerReportLink(qpLink) ==
  ReplaceFirst(qpLink, <<"_", "qp", "_">>, <<"_", "er", "_">>)

\* qpLink.replace("_qp_", "_ms_")
getMarkingSchemeLink(qpLink) ==
  ReplaceFirst(qpLink, <<"_", "qp", "_">>, <<"_", "ms", "_">>)

\* type DocumentType = "qp" | "ms" | "er" | "gt"
DocumentTypes == {"qp", "ms", "er", "gt"}

\* The strings given to the validators and to parseQuickCode (bounds of the
\* model).
FnYearStrings ==
  { <<>>, <<"5">>, <<"0">>, <<"7">>, <<"a">>, <<"1", "0">>, <<"0", "9">>,
    <<"0", "8">>, <<"2", "6">>, <<"2", "7">>, <<"2", "8">>, <<"2", "x">>,
    <<"a", "b">>, <<"2", "0", "2">>, <<"2", "0", "2", "0">>,
    <<"2", "0", "0", "8">>, <<"2", "0", "0", "9">>, <<"2", "0", "2", "6">>,
    <<"2", "0", "2", "7">>, <<"2", "0", "2", "8">>,
    <<"2", "0", "2", "0", "x">>, <<"x", "2", "0", "2", "0">>,
    <<"0", "2", "0", "2", "0">>, <<"2", "0", "2", "0", "0">> }

FnCodeStrings ==
  QuickCodeInputs \union
  { Code(<<"9", "7", "0", "1">>, <<"4", "2">>, <<"F", "/", "M">>, <<"0", "9">>),
    Code(<<"9", "7", "0", "1">>, <<"4", "2">>, <<"M", "/", "J">>, <<"0", "8">>),
    Code(<<"9", "7", "0", "1">>, <<"4", "2">>, <<"M", "/", "J">>, <<"2", "6">>),
    Code(<<"9", "7", "0", "1">>, <<"4", "2">>, <<"M", "/", "J">>, <<"2", "7">>),
    Code(<<"9", "7", "0", "1">>, <<"4", "2">>, <<"M", "/", "J">>, <<"2", "8">>),
    Code(<<"0", "0", "0", "0">>, <<"1", "1">>, <<"M", "/", "J">>, <<"0", "8">>),
    Code(<<"9", "7", "0", "1">>, <<"4", "2">>, <<"m", "/", "j">>, <<"2", "0">>),
    Code(<<"9", "7", "0", "1">>, <<"4", "2">>, <<"M", "/", "N">>, <<"2", "0">>),
    Code(<<"9", "7", "0", "1">>, <<"4", "x">>, <<"M", "/", "J">>, <<"2", "0">>),
    Code(<<"9", "7", "0", "1">>, <<"4", "2">>, <<"M", "/", "J">>, <<"2", "0", "2">>),
    Code(<<" ", "9", "7", "0", "1">>, <<"4", "2">>, <<"M", "/", "J">>, <<"2", "0">>),
    Code(<<"9", "7", "0">>, <<"4", "2">>, <<"M", "/", "J">>, <<"2", "0">>) }

FnStrings == FnYearStrings \union FnCodeStrings

\* The identifiers given to isFormComplete and generatePaperUrl (bounds of
\* the model): fields set and not set, valid and not.
FnIdentifiers ==
  [curriculum : {ALevel, ""},
   subject : {"", "chemistry-9701", "computer-science-0478", "biology-0000"},
   paperType : {<<>>, <<"4">>, <<"0">>, <<"a">>, <<"1", "0">>},
   variant : {<<>>, <<"2">>, <<"x">>},
   season : {"", "s", "w"},
   year : {<<>>, <<"2", "0">>, <<"0", "8">>, <<"2", "7">>, <<"2", "x">>}]

\* new Date().getFullYear() at a call (bounds of the model).
FnCurrentYears == {CurrentYear, CurrentYear + 1}

FnInput(kind, arg) == [name |-> "input", kind |-> kind, arg |-> arg]

FnApplied(name, arg, now, out) ==
  [name |-> name, kind |-> "result", arg |-> arg, now |-> now, out |-> out]

FnInit ==
  /\ chromeAvail = FALSE
  /\ store = EmptyStore
  /\ chromeQ = <<>>
  /\ todo = <<>>
  /\ timers = <<>>
  /\ formValues = DefaultForm
  /\ errors = NoErrors
  /\ quickCode = <<>>
  /\ quickCodeError = NoError
  /\ fullYear = <<>>
  /\ hasMountedRef = FALSE
  /\ hasGeneratedInitialUrl = FALSE
  /\ pendingSubjectRef = ""
  /\ isClearData = FALSE
  /\ preferencesLoaded = FALSE
  /\ showDialogOnLoad = FALSE
  /\ dialogOpen = FALSE
  /\ paperDetails = NoDetails
  /\ showPinRecommendation = TRUE
  /\ budget = 0
  /\ \/ \E s \in FnStrings : ev = FnInput("string", s)
     \/ \E v \in FnIdentifiers : ev = FnInput("identifier", v)

fnFrame ==
  <<storageVars, timers, todo, formValues, errors, quickCode, quickCodeError,
    fullYear, refVars, appVars, budget>>

\* validatePaperType(s)
callValidatePaperType ==
  /\ ev.name = "input" /\ ev.kind = "string"
  /\ ev' = FnApplied("validatePaperType", ev.arg, CurrentYear,
                     validatePaperType(ev.arg))
  /\ UNCHANGED fnFrame

\* validateYear(s) in a year now
callValidateYear ==
  /\ ev.name = "input" /\ ev.kind = "string"
  /\ \E now \in FnCurrentYears :
       ev' = FnApplied("validateYear", ev.arg, now, validateYear(ev.arg, now))
  /\ UNCHANGED fnFrame

\* validateQuickCode(s) in a year now
callValidateQuickCode ==
  /\ ev.name = "input" /\ ev.kind = "string"
  /\ \E now \in FnCurrentYears :
       ev' = FnApplied("validateQuickCode", ev.arg, now,
                       validateQuickCode(ev.arg, now))
  /\ UNCHANGED fnFrame

\* parseQuickCode(s), the subject row found by its code, the identifier
\* built from the two, and generateQuickCode of it; nothing when the code
\* does not parse or its subject is not in SUBJECTS.
callParseThenGenerate ==
  LET parsed == parseQuickCode(ev.arg)
      subject == FindSubjectByCode(parsed.subjectCode)
  IN /\ ev.name = "input" /\ ev.kind = "string"
     /\ ev' = IF parsed # NoParse /\ subject # NoSubject
                THEN FnApplied("parseThenGenerate", ev.arg, CurrentYear,
                       [ok |-> TRUE,
                        code |-> generateQuickCode(FormFromParsed(parsed, subject))])
              ELSE FnApplied("parseThenGenerate", ev.arg, CurrentYear,
                             [ok |-> FALSE])
     /\ UNCHANGED fnFrame

\* isFormComplete(v) in a year now
callIsFormComplete ==
  /\ ev.name = "input" /\ ev.kind = "identifier"
  /\ \E now \in FnCurrentYears :
       ev' = FnApplied("isFormComplete", ev.arg, now, isFormComplete(ev.arg, now))
  /\ UNCHANGED fnFrame

\* openPaper(docType): generatePaperUrl(currentFormValues, docType)
openPaper ==
  /\ ev.name = "input" /\ ev.kind = "identifier"
  /\ \E docType \in DocumentTypes :
       ev' = FnApplied("generatePaperUrl", [values |-> ev.arg, docType |-> docType],
                       CurrentYear, generatePaperUrl(ev.arg, docType))
  /\ UNCHANGED fnFrame

\* The question-paper link of PaperSearch.generateUrl for an identifier with
\* a registered subject, and getMarkingSchemeLink of it.
callGetMarkingSchemeLink ==
  /\ ev.name = "input" /\ ev.kind = "identifier"
  /\ Made(ev.arg)
  /\ ev' = FnApplied("getMarkingSchemeLink", ev.arg, CurrentYear,
                     [qpLink |-> LinkText(SearchUrl(ev.arg)),
                      msLink |-> getMarkingSchemeLink(LinkText(SearchUrl(ev.arg)))])
  /\ UNCHANGED fnFrame

FnNext ==
  \/ callValidatePaperType
  \/ callValidateYear
  \/ callValidateQuickCode
  \/ callParseThenGenerate
  \/ callIsFormComplete
  \/ openPaper
  \/ callGetMarkingSchemeLink

SpecFn == FnInit /\ [][FnNext]_vars

---------------------------------------------------------------------------
(* The two backends side by side: the same calls of the storage module,    *)
(* each run to completion, applied to an extension storage area and to a   *)
(* localStorage that both start empty                                      *)

\* Arguments of saveFormValues (bounds of the model): Partial<FormValues>
\* makes every field optional, the object without fields included.
PairPartials == StorePartials \union {EmptyObj}

\* saveFormValues run to completion on the extension backend: the get and
\* its callback with nothing in between.
SaveFormValuesChrome(st, values) ==
  SaveFormValuesChromeCallback(st, st.formValues, values)

PairInit ==
  /\ chromeAvail = TRUE
  /\ store = [chrome |-> EmptyStore, local |-> EmptyStore]
  /\ chromeQ = <<>>
  /\ todo = <<>>
  /\ timers = <<>>
  /\ formValues = DefaultForm
  /\ errors = NoErrors
  /\ quickCode = <<>>
  /\ quickCodeError = NoError
  /\ fullYear = <<>>
  /\ hasMountedRef = FALSE
  /\ hasGeneratedInitialUrl = FALSE
  /\ pendingSubjectRef = ""
  /\ isClearData = FALSE
  /\ preferencesLoaded = FALSE
  /\ showDialogOnLoad = FALSE
  /\ dialogOpen = FALSE
  /\ paperDetails = NoDetails
  /\ showPinRecommendation = TRUE
  /\ budget = MaxEvents
  /\ ev = [name |-> "start"]

pairFrame == <<chromeAvail, chromeQ, uiVars>>

pairSaveFormValues ==
  \E values \in PairPartials :
    /\ StoreCall
    /\ store' = [chrome |-> SaveFormValuesChrome(store.chrome, values),
                 local |-> SaveFormValuesLocal(store.local, values)]
    /\ ev' = [name |-> "saveFormValues", values |-> values]
    /\ UNCHANGED pairFrame

pairSaveQuickSearchValues ==
  \E code \in StoreQuickCodes :
    /\ StoreCall
    /\ store' = [chrome |-> SaveQuickSearchValues(TRUE, store.chrome, code),
                 local |-> SaveQuickSearchValues(FALSE, store.local, code)]
    /\ ev' = [name |-> "saveQuickSearchValues"]
    /\ UNCHANGED pairFrame

pairSavePreference ==
  \E key \in {"hidePinRecommendation", "showDialogOnLoad"}, value \in BOOLEAN :
    /\ StoreCall
    /\ store' = [chrome |-> SavePreference(TRUE, store.chrome, key, value),
                 local |-> SavePreference(FALSE, store.local, key, value)]
    /\ ev' = [name |-> "savePreference"]
    /\ UNCHANGED pairFrame

pairClearAllValues ==
  /\ StoreCall
  /\ store' = [chrome |-> ClearAllValues(TRUE, store.chrome),
               local |-> ClearAllValues(FALSE, store.local)]
  /\ ev' = [name |-> "clearAllValues"]
  /\ UNCHANGED pairFrame

\* loadFormValues, loadQuickSearchValues and loadPreferences on each backend.
pairLoads ==
  /\ ev.name # "loads"
  /\ ev' = [name |-> "loads",
            chrome |->
              [formValues |-> LoadFormValuesChrome(store.chrome.formValues),
               quickCode |-> LoadQuickSearchValuesChrome(store.chrome.quickSearchValues),
               preferences |-> LoadPreferencesChrome(ChromeGet(store.chrome, PrefKeys))],
            local |->
              [formValues |-> LoadFormValuesLocal(store.local),
               quickCode |-> LoadQuickSearchValuesLocal(store.local),
               preferences |-> LoadPreferencesLocal(store.local)]]
  /\ UNCHANGED <<store, budget, pairFrame>>

PairNext ==
  \/ pairSaveFormValues
  \/ pairSaveQuickSearchValues
  \/ pairSavePreference
  \/ pairClearAllValues
  \/ pairLoads

SpecPair == PairInit /\ [][PairNext]_vars

---------------------------------------------------------------------------
(* Startup on its own: the page is mounted over what an earlier session    *)
(* left in storage and runs its mount effects, loads and timer before any  *)
(* user event                                                              *)

\* Forms an earlier session can have saved last: updateFormField saves the
\* form after every edit, whatever the validators say.  A complete valid
\* form, one with the year 2008, one with paperType "0", one whose variant
\* was emptied.
StartupForms ==
  { StoredForm,
    [StoredForm EXCEPT !.year = <<"0", "8">>],
    [StoredForm EXCEPT !.paperType = <<"0">>],
    [StoredForm EXCEPT !.variant = <<>>] }

\* The storage after saveFormValues(values) as the last save of a session.
StoreWithForm(chrome, values) ==
  IF chrome
    THEN SaveFormValuesChromeCallback(UsedStore(chrome),
                                      UsedStore(chrome).formValues, values)
  ELSE SaveFormValuesLocal(UsedStore(chrome), values)

\* Nothing stored, or one of the forms with the dialog preference never
\* saved, saved on or saved off.
StartupStores(chrome) ==
  {EmptyStore}
    \union {StoreWithForm(chrome, f) : f \in StartupForms}
    \union {SavePreference(chrome, StoreWithForm(chrome, f), "showDialogOnLoad", b) :
              f \in StartupForms, b \in BOOLEAN}

StartupInit ==
  /\ chromeAvail \in BOOLEAN
  /\ store \in StartupStores(chromeAvail)
  /\ chromeQ = IF chromeAvail
                 THEN <<[op |-> "loadPrefs", stale |-> FALSE,
                         result |-> ChromeGet(store, PrefKeys)]>>
               ELSE <<>>
  /\ todo = IF chromeAvail THEN <<>>
            ELSE <<[k |-> "prefsThen", r |-> LoadPreferencesLocal(store)]>>
  /\ timers = <<>>
  /\ formValues = DefaultForm
  /\ errors = NoErrors
  /\ quickCode = <<>>
  /\ quickCodeError = NoError
  /\ fullYear = <<>>
  /\ hasMountedRef = FALSE
  /\ hasGeneratedInitialUrl = FALSE
  /\ pendingSubjectRef = ""
  /\ isClearData = FALSE
  /\ preferencesLoaded = FALSE
  /\ showDialogOnLoad = FALSE
  /\ dialogOpen = FALSE
  /\ paperDetails = NoDetails
  /\ showPinRecommendation = TRUE
  /\ budget = 0
  /\ ev = Event("mount")

StartupNext ==
  \/ initPreferences
  \/ loadEffect
  \/ loadQuickThen
  \/ loadFormThen
  \/ loadTimer

SpecStartup == StartupInit /\ [][StartupNext]_vars

---------------------------------------------------------------------------
(* The stepper buttons of the paper-type field on their own: the page has  *)
(* started over an empty storage, the field holds nothing or a typed digit, *)
(* and the user presses the two buttons in any order                       *)

\* n.toString() for a number of one digit.
DigitString(n) == <<CHOOSE c \in Digits : DigitVal(c) = n>>

\* An increment computed as incrementVariant computes it.
IncrementedModTen(current) ==
  LET numValue == IF current # <<>> THEN parseInt(current) ELSE 0
  IN DigitString((numValue + 1) % 10)

\* incrementPaperType: the value handed to handlePaperTypeChange.
IncrementedPaperType(current) ==
  LET numValue == IF current # <<>> THEN parseInt(current) ELSE 0
  IN IF numValue = 0 \/ numValue = 9 THEN <<"1">>
     ELSE DigitString((numValue + 1) % 10)

\* decrementPaperType: (numValue - 1 || 9).toString()
DecrementedPaperType(current) ==
  LET numValue == IF current # <<>> THEN parseInt(current) ELSE 0
  IN IF numValue = 0 \/ numValue = 1 THEN <<"9">>
     ELSE DigitString(IF numValue - 1 # 0 THEN numValue - 1 ELSE 9)

\* handlePaperTypeChange(value) called by a stepper button.
PaperTypeChange(value, button) ==
  LET numericValue == SliceTo(KeepDigits(value), 1)
  IN /\ PageEvent /\ CanSave
     /\ updateFormField("paperType", numericValue)
     /\ errors' = [errors EXCEPT !.paperType = validatePaperType(numericValue)]
     /\ ev' = Event(button)
     /\ UNCHANGED <<fullYear, editFrame>>
     /\ Schedule(todo)

incrementPaperType ==
  PaperTypeChange(IncrementedPaperType(formValues.paperType), "incrementPaperType")

decrementPaperType ==
  PaperTypeChange(DecrementedPaperType(formValues.paperType), "decrementPaperType")

\* What the field can hold when the first button is pressed: nothing, or
\* the digit handlePaperTypeChange kept of what was typed.
StepperPaperTypes == {<<>>} \union {<<d>> : d \in Digits}

\* The storage after the edit that typed the form.
StepperStore(chrome, values) ==
  IF values = DefaultForm THEN EmptyStore
  ELSE IF chrome THEN SaveFormValuesChromeCallback(EmptyStore, Absent, values)
  ELSE SaveFormValuesLocal(EmptyStore, values)

StepperInit ==
  /\ chromeAvail \in BOOLEAN
  /\ formValues \in {[DefaultForm EXCEPT !.paperType = p] : p \in StepperPaperTypes}
  /\ store = StepperStore(chromeAvail, formValues)
  /\ errors = [NoErrors EXCEPT !.paperType =
                 IF formValues.paperType = <<>> THEN NoError
                 ELSE validatePaperType(formValues.paperType)]
  /\ chromeQ = <<>>
  /\ todo = <<>>
  /\ timers = <<>>
  /\ quickCode = <<>>
  /\ quickCodeError = NoError
  /\ fullYear = <<>>
  /\ hasMountedRef = TRUE
  /\ hasGeneratedInitialUrl = FALSE
  /\ pendingSubjectRef = ""
  /\ isClearData = FALSE
  /\ preferencesLoaded = TRUE
  /\ showDialogOnLoad = TRUE
  /\ dialogOpen = FALSE
  /\ paperDetails = NoDetails
  /\ showPinRecommendation = TRUE
  /\ budget = MaxEvents
  /\ ev = Event("typed")

StepperNext ==
  \/ incrementPaperType
  \/ decrementPaperType
  \/ saveFormValuesCallback

SpecStepper == StepperInit /\ [][StepperNext]_vars

---------------------------------------------------------------------------
(* Properties                                                              *)

LoadReactions == {"loadFormThen", "loadQuickThen"}

\* C1: a load callback (loadFormValues / loadQuickSearchValues) that was
\* pending when the clear ran and completes after it changes neither the
\* form nor the quick code.
StaleLoadChangesNothing ==
  [][(ev'.name \in LoadReactions /\ ev'.stale)
       => (formValues' = formValues /\ quickCode' = quickCode)]_vars

\* A load reaction has run after the clear that overtook it.
StaleLoadCompleted == ev.name \in LoadReactions /\ ev.stale

NoSavePending == \A i \in 1..Len(chromeQ) : chromeQ[i].op # "save"

\* C2: on the extension backend, once no saveFormValues is in flight, the
\* stored formValues holds every field of every saveFormValues call made
\* since the last clear, the later call winning on a shared key.
NoLostUpdate ==
  (chromeAvail /\ NoSavePending)
    => \A k \in DOMAIN ev.merged :
         /\ store.formValues.tag = "val"
         /\ k \in DOMAIN store.formValues.v
         /\ store.formValues.v[k] = ev.merged[k]

\* Two saves have completed on the extension backend.
TwoSavesCompleted ==
  /\ chromeAvail /\ NoSavePending
  /\ ev.name = "saveFormValuesDone"
  /\ Cardinality(DOMAIN ev.merged) >= 2

LoadsDone == {"loadFormValuesDone", "loadQuickSearchValuesDone"}

\* C3: a load started and completed after a clear, with no save started in
\* between, resolves null, whatever callbacks were pending at the clear.
LoadAfterClearIsDefault ==
  (ev.name \in LoadsDone /\ ev.afterClear) => ev.result = Null

\* A load has completed after a clear with no save started in between.
LoadAfterClearCompleted == ev.name \in LoadsDone /\ ev.afterClear

\* The object a formValues slot holds for saveFormValues: {} when the slot
\* is empty or null.
ObjectOf(slot) == IF slot.tag \in {"val", "json"} THEN slot.v ELSE EmptyObj

\* C4: saveFormValues(P) on a store whose formValues is E leaves formValues
\* equal to E shallow-merged with P (the keys of P from P, every other key
\* of E as it was) and the other three stored keys unchanged, on both
\* backends.
SaveMergesShallow ==
  [][(/\ ev'.name = "saveFormValuesDone"
      /\ ev'.read = store.formValues
      /\ store.formValues.tag # "text")
       => LET E == ObjectOf(store.formValues)
              P == ev'.values
              new == store'.formValues
          IN /\ new.tag = IF chromeAvail THEN "val" ELSE "json"
             /\ DOMAIN new.v = DOMAIN E \cup DOMAIN P
             /\ \A k \in DOMAIN P : new.v[k] = P[k]
             /\ \A k \in DOMAIN E \ DOMAIN P : new.v[k] = E[k]
             /\ \A k \in StorageKeys \ {"formValues"} : store'[k] = store[k]]_vars

\* A save has merged into an object that held a key the save did not give.
SaveKeptOtherKey ==
  /\ ev.name = "saveFormValuesDone"
  /\ \E k \in DOMAIN ObjectOf(ev.read) \ DOMAIN ev.values :
       /\ k \in DOMAIN store.formValues.v
       /\ store.formValues.v[k] = ObjectOf(ev.read)[k]

LoadPreferencesNow ==
  IF chromeAvail THEN LoadPreferencesChrome(ChromeGet(store, PrefKeys))
  ELSE LoadPreferencesLocal(store)

LoadQuickSearchValuesNow ==
  IF chromeAvail THEN LoadQuickSearchValuesChrome(store.quickSearchValues)
  ELSE LoadQuickSearchValuesLocal(store)

\* C5: right after the clear-data action everything persisted is wiped: a
\* loadPreferences would return the default of every field and a
\* loadQuickSearchValues null.
ClearWipesEverything ==
  ev.name = "clearEffect"
    => (LoadPreferencesNow = defaultPreferences /\ LoadQuickSearchValuesNow = Null)

\* The clear-data action has run.
ClearRan == ev.name = "clearEffect"

\* C6: submitting a valid quick code whose subject is of another curriculum
\* changes only the curriculum in that step (subject emptied and recorded as
\* pending, no link generated, nothing saved); the step after it is the
\* pending-subject effect, which fills the form with the decoded fields,
\* generates the link and clears the pending subject.
PendingSubjectApplied ==
  [][/\ ev'.name = "handleQuickCodeSubmitPending"
          => LET target == FindSubjectByCode(SubSeq(quickCode, 1, 4))
             IN /\ formValues'.curriculum # formValues.curriculum
                /\ formValues' = [formValues EXCEPT !.curriculum = target.curriculum,
                                                    !.subject = ""]
                /\ pendingSubjectRef' = target.id
                /\ ~ev'.made
                /\ UNCHANGED <<paperDetails, dialogOpen, quickCode, store, chromeQ>>
                /\ todo' # <<>> /\ Head(todo').k = "pendingSubjectEffect"
     /\ ev.name = "handleQuickCodeSubmitPending"
          => /\ ev'.name = "pendingSubjectEffect"
             /\ ev'.made /\ ev'.quick
             /\ pendingSubjectRef' = ""
             /\ formValues'.curriculum = formValues.curriculum
             /\ formValues'.subject = pendingSubjectRef
             /\ formValues'.paperType = SubSeq(quickCode, 6, 6)
             /\ formValues'.variant = SubSeq(quickCode, 7, 7)
             /\ SeasonLabel(formValues'.season) = SubSeq(quickCode, 9, 11)
             /\ formValues'.year = SubSeq(quickCode, 13, 14)
             /\ paperDetails'.link = SearchUrl(formValues')]_vars

\* The pending subject of a quick code of the other curriculum was applied.
PendingSubjectWasApplied ==
  /\ ev.name = "pendingSubjectEffect" /\ ev.made
  /\ formValues.subject = "computer-science-0478"
  /\ pendingSubjectRef = ""
  /\ paperDetails # NoDetails

FormEdits ==
  {"handleCurriculumChange", "handleSubjectChange", "handleSeasonChange",
   "handlePaperTypeChange", "handleVariantChange", "handleYearChange"}

Submits ==
  {"handleFormSubmit", "handleQuickCodeSubmitDirect",
   "handleQuickCodeSubmitPending", "pendingSubjectEffect"}

\* C7: the form and the quick code are synchronised only by a submit: a
\* quick-code keystroke leaves the form alone, a form edit leaves the quick
\* code alone, and apart from its own keystrokes, its own stored value being
\* loaded and a clear, the quick code changes only in a submit (likewise the
\* form), never on load.
SyncOnlyBySubmit ==
  [][/\ ev'.name = "handleQuickCodeChange" => formValues' = formValues
     /\ ev'.name \in FormEdits => quickCode' = quickCode
     /\ quickCode' # quickCode
          => ev'.name \in {"handleQuickCodeChange", "loadQuickThen", "clearEffect"}
                            \cup Submits
     /\ formValues' # formValues
          => ev'.name \in FormEdits \cup {"loadFormThen", "clearEffect"}
                            \cup Submits]_vars

\* The timer of the load effect has generated the link of the stored form.
LoadGenerated == ev.name = "loadTimer" /\ ev.made

\* C8: the subject of the form is empty or a registered subject of the
\* form's curriculum.
SubjectInCurriculum ==
  \/ formValues.subject = ""
  \/ \E i \in 1..Len(SUBJECTS) :
       /\ SUBJECTS[i].id = formValues.subject
       /\ SUBJECTS[i].curriculum = formValues.curriculum

\* The curriculum was changed by hand after the stored subject was loaded,
\* and a subject of the new curriculum picked.
SubjectPickedAfterCurriculumChange ==
  /\ ev.name = "handleSubjectChange"
  /\ formValues.curriculum = IGCSE
  /\ formValues.subject = "computer-science-0478"
  /\ formValues.paperType # <<>>

PaperTypes1To9 == {<<d>> : d \in Digits \ {"0"}}

\* C9: an identifier whose link is generated by a manual submit or by a
\* quick-code submit has a paperType 1-9.
GeneratedPaperTypeNonZero ==
  (ev.made /\ ev.name \in Submits)
    => /\ formValues.paperType \in PaperTypes1To9
       /\ SubSeq(paperDetails.link.paperNumber, 1, 1) \in PaperTypes1To9

\* A submit has generated a link.
SubmitGenerated == ev.made /\ ev.name \in Submits

\* The identifiers C10 speaks of.
ValidIdentifier(values) ==
  /\ \E i \in 1..Len(SUBJECTS) :
       /\ SUBJECTS[i].id = values.subject
       /\ SUBJECTS[i].curriculum = values.curriculum
  /\ values.paperType \in PaperTypes1To9
  /\ Len(values.variant) = 1 /\ IsDigits(values.variant)
  /\ values.season \in {"m", "s", "w"}
  /\ Len(values.year) = 2 /\ IsDigits(values.year)

\* C10: for an identifier with a registered subject of its curriculum,
\* paperType 1-9, variant 0-9, a season m, s or w and a 2-digit year,
\* parseQuickCode of its generateQuickCode, with the subject found by its
\* code, is the identifier again.
DecodeOfEncode ==
  (ev.name = "decodeQuickCode" /\ ValidIdentifier(formValues))
    => (ev.ok /\ ev.values = formValues)

\* An IGCSE identifier of the winter season went through the round trip.
RoundTripDone ==
  /\ ev.name = "decodeQuickCode" /\ ValidIdentifier(formValues)
  /\ formValues.subject = "computer-science-0478"
  /\ formValues.season = "w"
  /\ Len(quickCode) = 14

\* The quick-code grammar: four digits, a slash, two digits, a slash, one of
\* F/M, M/J, O/N, a slash, two digits, and nothing else.
QuickCodeGrammar(s) ==
  /\ Len(s) = 14
  /\ \A i \in {1, 2, 3, 4, 6, 7, 13, 14} : s[i] \in Digits
  /\ \A i \in {5, 8, 10, 12} : s[i] = "/"
  /\ <<s[9], s[11]>> \in {<<"F", "M">>, <<"M", "J">>, <<"O", "N">>}

RegisteredCode(s) == \E i \in 1..Len(SUBJECTS) : SUBJECTS[i].code = SubSeq(s, 1, 4)

\* C11: for every string that matches the quick-code grammar and whose
\* 4-digit subject code is registered, generateQuickCode of the identifier
\* obtained from parseQuickCode, with the subject found by its code, is the
\* same string character for character.
EncodeOfDecode ==
  (ev.name = "parseThenGenerate" /\ QuickCodeGrammar(ev.arg) /\ RegisteredCode(ev.arg))
    => (ev.out.ok /\ ev.out.code = ev.arg)

\* A winter code of an IGCSE subject was parsed and generated again.
CodeRoundTripDone ==
  /\ ev.name = "parseThenGenerate"
  /\ ev.arg = Code(<<"0", "4", "7", "8">>, <<"1", "2">>, <<"O", "/", "N">>, <<"1", "9">>)
  /\ ev.out.ok

\* The year 20YY a string of the quick-code grammar names.
CodeYear(s) == 2000 + 10 * DigitVal(s[13]) + DigitVal(s[14])

\* What C12 says of validateQuickCode(s) = out in the year now.
QuickCodeVerdict(s, now, out) ==
  /\ (out = NoError) <=>
       (QuickCodeGrammar(s) /\ RegisteredCode(s) /\ CodeYear(s) \in 2009..now)
  /\ ~QuickCodeGrammar(s) => out = FormatError
  /\ (QuickCodeGrammar(s) /\ ~RegisteredCode(s)) =>
       out = ErrWith("Subject with code is not supported yet", SubSeq(s, 1, 4))

\* C12 as stated: for every input string validateQuickCode returns no error
\* exactly when the string matches the grammar, its subject code is
\* registered and 20YY lies in [2009, currentYear]; a string failing the
\* grammar gets the format error, a well-formed code with an unregistered
\* subject the unknown-subject error that quotes the 4-digit code.
QuickCodeVerdictEveryString ==
  ev.name = "validateQuickCode" => QuickCodeVerdict(ev.arg, ev.now, ev.out)

\* C12 amended: the same for every non-empty input string; the empty string
\* gets no error.
QuickCodeVerdictNonEmpty ==
  ev.name = "validateQuickCode" =>
    IF ev.arg = <<>> THEN ev.out = NoError
    ELSE QuickCodeVerdict(ev.arg, ev.now, ev.out)

\* A well-formed code of an unregistered subject was validated and the
\* error quotes its code.
UnknownSubjectReported ==
  /\ ev.name = "validateQuickCode"
  /\ ev.arg = Code(<<"0", "0", "0", "0">>, <<"1", "1">>, <<"M", "/", "J">>, <<"2", "0">>)
  /\ ev.out.arg = <<"0", "0", "0", "0">>

\* The number a string of decimal digits writes.
RECURSIVE NumberOf(_)
NumberOf(s) ==
  IF s = <<>> THEN 0
  ELSE 10 * NumberOf(SubSeq(s, 1, Len(s) - 1)) + DigitVal(s[Len(s)])

\* A numeric string of length 2 or of length at least 4, and its year.
NumericYear(s) == IsDigits(s) /\ (Len(s) = 2 \/ Len(s) >= 4)
YearOf(s) == IF Len(s) = 2 THEN 2000 + NumberOf(s) ELSE NumberOf(s)

\* C13: validateYear(s) returns no error exactly when s is a numeric string
\* of length 2 or of length at least 4 whose year (20XX for two digits, the
\* number itself otherwise) lies in [2009, currentYear]; a year below 2009
\* gives the lower-bound error and a year above currentYear the upper-bound
\* error, currentYear being the year of the call.
YearVerdict ==
  ev.name = "validateYear" =>
    /\ (ev.out = NoError) <=>
         (NumericYear(ev.arg) /\ YearOf(ev.arg) \in 2009..ev.now)
    /\ (NumericYear(ev.arg) /\ YearOf(ev.arg) < 2009) =>
         ev.out = Err("Year must be 2009 or later")
    /\ (NumericYear(ev.arg) /\ YearOf(ev.arg) > ev.now) =>
         ev.out = ErrWith("Year cannot exceed current year", ev.now)

\* The same without the two inputs that break it: an empty string, and a
\* string of at least 4 characters that begins with a digit and is not
\* numeric.
YearVerdictOnDigits ==
  (ev.name = "validateYear" /\ ev.arg # <<>>
     /\ (Len(ev.arg) >= 4 => IsDigits(ev.arg) \/ ev.arg[1] \notin Digits))
    => YearVerdict

\* validateYear was given a year followed by a letter.
YearWithLetterValidated ==
  /\ ev.name = "validateYear"
  /\ ev.arg = <<"2", "0", "2", "0", "x">>
  /\ ev.out = NoError

\* What C14 takes validatePaperType to reject.
BadPaperType(s) == Len(s) # 1 \/ ~IsDigits(s) \/ s = <<"0">>

AllSetAndValid(v, now) ==
  /\ v.curriculum # "" /\ v.subject # "" /\ v.season # ""
  /\ v.paperType # <<>> /\ validatePaperType(v.paperType) = NoError
  /\ v.variant # <<>> /\ validateVariant(v.variant) = NoError
  /\ Len(v.year) = 2 /\ IsDigits(v.year)
  /\ 2000 + NumberOf(v.year) \in 2009..now

\* C15: isFormComplete(v) is true exactly when curriculum, subject,
\* paperType, variant, season and year are all set and each is individually
\* valid: paperType passes validatePaperType, variant passes validateVariant,
\* and year is two digits with 2009 <= 20YY <= currentYear.
CompleteIffValid ==
  ev.name = "isFormComplete" => (ev.out <=> AllSetAndValid(ev.arg, ev.now))

\* The same for identifiers whose paperType and variant hold digits only.
CompleteIffValidOnDigits ==
  (ev.name = "isFormComplete" /\ IsDigits(ev.arg.paperType) /\ IsDigits(ev.arg.variant))
    => (ev.out <=> AllSetAndValid(ev.arg, ev.now))

\* isFormComplete accepted an identifier whose paperType is a letter.
LetterPaperTypeComplete ==
  /\ ev.name = "isFormComplete"
  /\ ev.arg.paperType = <<"a">>
  /\ ev.out = TRUE

\* Two texts of the same length that differ in exactly one piece, which is
\* the tag a in the first and the tag b in the second.
DifferOnlyInTag(x, y, a, b) ==
  /\ Len(x) = Len(y)
  /\ \E i \in 1..Len(x) :
       /\ x[i] = a /\ y[i] = b
       /\ \A j \in 1..Len(x) : j # i => x[j] = y[j]

\* C16: for a fixed identifier with a registered subject the question-paper
\* URL and the mark-scheme URL differ only in the document-type tag:
\* replacing the tag qp by ms in the question-paper URL gives exactly the
\* mark-scheme URL, and replacing ms by qp gives it back.  Stated of
\* generatePaperUrl (tag between hyphens) and of getMarkingSchemeLink on the
\* link of PaperSearch (tag between underscores).
QpAndMsDifferInTag ==
  /\ (ev.name = "generatePaperUrl" /\ ev.arg.docType = "qp" /\ ev.out.ok) =>
       LET qpUrl == ev.out.url
           msUrl == generatePaperUrl(ev.arg.values, "ms").url
       IN /\ DifferOnlyInTag(qpUrl, msUrl, "qp", "ms")
          /\ ReplaceFirst(qpUrl, <<"-", "qp", "-">>, <<"-", "ms", "-">>) = msUrl
          /\ ReplaceFirst(msUrl, <<"-", "ms", "-">>, <<"-", "qp", "-">>) = qpUrl
  /\ ev.name = "getMarkingSchemeLink" =>
       LET msLink == LinkText([SearchUrl(ev.arg) EXCEPT !.docType = "ms"])
       IN /\ ev.out.msLink = msLink
          /\ DifferOnlyInTag(ev.out.qpLink, ev.out.msLink, "qp", "ms")
          /\ ReplaceFirst(msLink, <<"_", "ms", "_">>, <<"_", "qp", "_">>) = ev.out.qpLink

\* The mark-scheme link of a chemistry paper was derived from its
\* question-paper link.
MarkSchemeLinkDerived ==
  /\ ev.name = "getMarkingSchemeLink"
  /\ ev.arg.subject = "chemistry-9701"
  /\ ev.arg.paperType = <<"4">> /\ ev.arg.variant = <<"2">>
  /\ ev.out.msLink # ev.out.qpLink

\* The rows of SUBJECTS with a given id.
RowsWithId(id) == {i \in 1..Len(SUBJECTS) : SUBJECTS[i].id = id}

\* C17: generatePaperUrl returns null exactly when the identifier's subject
\* id is not a registered subject; for every registered subject it returns a
\* URL and paper details, and these are fixed by the identifier and the
\* document type: the details are the subject row's code and label, the
\* paper number, the season label and the year, and the URL names the
\* curriculum, the subject, the year 20YY and the document type.
NullIffUnregistered ==
  ev.name = "generatePaperUrl" =>
    LET v == ev.arg.values
    IN /\ (ev.out = NoPaper) <=> (RowsWithId(v.subject) = {})
       /\ RowsWithId(v.subject) # {} =>
            \E i \in RowsWithId(v.subject) :
              /\ ev.out.paperDetails =
                   [subjectCode |-> SUBJECTS[i].code,
                    subjectName |-> SUBJECTS[i].label,
                    paperNumber |-> v.paperType \o v.variant,
                    season |-> SeasonLabel(v.season),
                    year |-> v.year]
              /\ SubSeq(ev.out.url, 1, 7 + Len(v.year)) =
                   <<"https://bestexamhelp.com/exam/", v.curriculum, "/",
                     v.subject, "/", "2", "0">> \o v.year
              /\ \E k \in 1..Len(ev.out.url) : ev.out.url[k] = ev.arg.docType
              /\ ev.out.url[Len(ev.out.url)] = ".php"

\* generatePaperUrl was given an identifier whose subject is not registered.
UnregisteredSubjectGivesNull ==
  /\ ev.name = "generatePaperUrl"
  /\ ev.arg.values.subject = "biology-0000"
  /\ ev.arg.docType = "er"
  /\ ev.out = NoPaper

\* C18: the paper-number block is part of the URL only for question paper
\* and mark scheme: for examiner report and grade threshold, identifiers
\* that differ only in paperType or variant produce the same URL, while for
\* qp and ms the URL ends, before the extension, with a hyphen and the paper
\* number (paperType followed by variant).
PaperNumberOnlyForQpMs ==
  (ev.name = "generatePaperUrl" /\ ev.out.ok) =>
    LET v == ev.arg.values
        url == ev.out.url
        paperNumber == v.paperType \o v.variant
        n == Len(url)
    IN /\ ev.arg.docType \in {"er", "gt"} =>
            \A p \in {w.paperType : w \in FnIdentifiers},
               r \in {w.variant : w \in FnIdentifiers} :
                 generatePaperUrl([v EXCEPT !.paperType = p, !.variant = r],
                                  ev.arg.docType).url = url
       /\ ev.arg.docType \in {"qp", "ms"} =>
            /\ url[n] = ".php"
            /\ SubSeq(url, n - Len(paperNumber), n - 1) = paperNumber
            /\ url[n - Len(paperNumber) - 1] = "-"
            /\ url[n - Len(paperNumber) - 2] = ev.arg.docType

\* A grade-threshold URL was generated for an identifier that has a paper
\* number.
GradeThresholdGenerated ==
  /\ ev.name = "generatePaperUrl"
  /\ ev.arg.docType = "gt"
  /\ ev.out.ok
  /\ ev.arg.values.paperType = <<"4">> /\ ev.arg.values.variant = <<"2">>

\* The preferences initPreferences is about to receive, and the slots
\* loadPreferences read them from.
LoadedPreferences ==
  IF chromeAvail THEN LoadPreferencesChrome(Head(chromeQ).result) ELSE Head(todo).r

SlotsRead == IF chromeAvail THEN Head(chromeQ).result ELSE store

\* Absent keys load as their defaults.
AbsentKeysDefault ==
  /\ SlotsRead.showDialogOnLoad = Absent => LoadedPreferences.showDialogOnLoad = TRUE
  /\ SlotsRead.hidePinRecommendation = Absent =>
       LoadedPreferences.hidePinRecommendation = FALSE
  /\ SlotsRead.formValues = Absent => LoadedPreferences.formValues = Null

\* The loaded identifier has a year and 20YY is outside [2009, currentYear].
LoadedYearOutOfRange ==
  /\ LoadedPreferences.formValues # Null
  /\ "year" \in DOMAIN LoadedPreferences.formValues.v
  /\ LoadedPreferences.formValues.v.year # <<>>
  /\ parseInt(<<"2", "0">> \o LoadedPreferences.formValues.v.year)
       \notin 2009..CurrentYear

\* C19 as stated: when a preference key is absent from storage, loading the
\* preferences yields its default (showDialogOnLoad true,
\* hidePinRecommendation false, identifier null) on both backends, and the
\* App's showDialogOnLoad state after loading equals the loaded value.
DialogStateIsLoadedValue ==
  [][ev'.name = "initPreferences" =>
       /\ AbsentKeysDefault
       /\ showDialogOnLoad' = LoadedPreferences.showDialogOnLoad]_vars

\* C19 amended: absent keys load as their defaults on both backends, and
\* the App's showDialogOnLoad state after loading equals the loaded value
\* unless the loaded identifier has a year with 20YY outside
\* [2009, currentYear], in which case the state is false.
DialogStateIsLoadedValueOrYearStale ==
  [][ev'.name = "initPreferences" =>
       /\ AbsentKeysDefault
       /\ showDialogOnLoad' =
            IF LoadedYearOutOfRange THEN FALSE
            ELSE LoadedPreferences.showDialogOnLoad]_vars

\* The preferences were loaded from a store without the key
\* showDialogOnLoad and the App shows the dialog on load.
DefaultsLoaded ==
  /\ ev.name = "initPreferences"
  /\ preferencesLoaded
  /\ store.showDialogOnLoad = Absent /\ store.hidePinRecommendation = Absent
  /\ showDialogOnLoad /\ showPinRecommendation

\* The slots a completing load read: the get's result on the extension
\* backend, the items of localStorage otherwise.
PrefSlotsRead ==
  IF chromeAvail THEN Head(chromeQ).result ELSE [k \in PrefKeys |-> store[k]]

\* A stored item that cannot be read as a value: on localStorage a string
\* that is not JSON.
Unreadable(slot) == slot.tag = "text"

\* A stored boolean preference that can be read, and its value.
ReadableBool(slot) ==
  slot \in {Val(TRUE), Val(FALSE), Text("true"), Text("false")}

BoolOf(slot) == slot \in {Val(TRUE), Text("true")}

\* C20: every load completes with a value even when the stored data cannot
\* be parsed: loadFormValues and loadQuickSearchValues resolve null for an
\* unreadable item, and loadPreferences returns an unreadable identifier as
\* null while the stored boolean preferences that are readable are still
\* returned.
LoadsSurviveBadData ==
  [][/\ ev'.name = "loadFormValuesDone" =>
          /\ ev'.result = Null \/ ev'.result.tag = "val"
          /\ (~chromeAvail /\ Unreadable(store.formValues)) => ev'.result = Null
     /\ ev'.name = "loadQuickSearchValuesDone" =>
          /\ ev'.result = Null \/ ev'.result.tag = "val"
          /\ (~chromeAvail /\ Unreadable(store.quickSearchValues)) => ev'.result = Null
     /\ ev'.name = "loadPreferencesDone" =>
          /\ Unreadable(PrefSlotsRead.formValues) => ev'.result.formValues = Null
          /\ \A key \in {"hidePinRecommendation", "showDialogOnLoad"} :
               ReadableBool(PrefSlotsRead[key]) =>
                 ev'.result[key] = BoolOf(PrefSlotsRead[key])]_vars

\* The same with the booleans required only when the identifier is readable.
LoadsSurviveBadDataButDropBooleans ==
  [][/\ ev'.name = "loadFormValuesDone" =>
          /\ ev'.result = Null \/ ev'.result.tag = "val"
          /\ (~chromeAvail /\ Unreadable(store.formValues)) => ev'.result = Null
     /\ ev'.name = "loadQuickSearchValuesDone" =>
          /\ ev'.result = Null \/ ev'.result.tag = "val"
          /\ (~chromeAvail /\ Unreadable(store.quickSearchValues)) => ev'.result = Null
     /\ ev'.name = "loadPreferencesDone" =>
          /\ Unreadable(PrefSlotsRead.formValues) => ev'.result = defaultPreferences
          /\ ~Unreadable(PrefSlotsRead.formValues) =>
               \A key \in {"hidePinRecommendation", "showDialogOnLoad"} :
                 ReadableBool(PrefSlotsRead[key]) =>
                   ev'.result[key] = BoolOf(PrefSlotsRead[key])]_vars

\* loadPreferences completed on a localStorage whose identifier is not JSON
\* and whose hidePinRecommendation is "true".
PreferencesLoadedFromBadData ==
  /\ ev.name = "loadPreferencesDone"
  /\ ~chromeAvail
  /\ Unreadable(store.formValues)
  /\ store.hidePinRecommendation = Text("true")
  /\ ev.result.formValues = Null

\* The steps the event loop takes by itself: queued effects and promise
\* reactions, storage callbacks and timers.  The user's events are not
\* among them: nothing obliges the user to act.
SystemNext ==
  \/ pendingSubjectEffect
  \/ clearEffect
  \/ initPreferences
  \/ loadEffect
  \/ loadQuickThen
  \/ loadFormThen
  \/ loadTimer
  \/ saveFormValuesCallback

\* The event loop runs what is queued: the program under weak fairness of
\* the system's steps, and the last part of C20 under it: preferencesLoaded
\* eventually becomes true.
SpecLive == Spec /\ WF_vars(SystemNext)

PreferencesEventuallyLoaded == <>preferencesLoaded

\* C21: for every sequence of saveFormValues, saveQuickSearchValues,
\* savePreference and clearAllValues calls, each run to completion before
\* the next, loadFormValues, loadQuickSearchValues and loadPreferences
\* return the same values on the extension backend as on localStorage.
BackendsAgree == ev.name = "loads" => ev.chrome = ev.local

\* The same when no saveFormValues call was given the object without
\* fields while nothing was stored.
BackendsAgreeOnFilledForms ==
  (ev.name = "loads" /\ store.local.formValues # Json(EmptyObj))
    => ev.chrome = ev.local

\* The loads ran on both backends after an empty object was saved into
\* empty stores.
LoadedAfterEmptySave ==
  /\ ev.name = "loads"
  /\ store.local.formValues = Json(EmptyObj)
  /\ store.chrome.formValues = Val(EmptyObj)
  /\ ev.chrome.formValues = Null
  /\ ev.local.formValues = Val(EmptyObj)

\* The steps a click on the submit button of the manual form can take.
ManualSubmits == {"handleFormSubmit", "handleFormSubmitInvalid"}

\* C22: a manual submit attempted while the form is incomplete or invalid
\* has no effect: no URL is generated, the dialog is not opened, and the
\* form values, the quick code and the stored values are unchanged (and no
\* save is started).
InvalidSubmitChangesNothing ==
  [][(ev'.name \in ManualSubmits /\ ~AllSetAndValid(formValues, CurrentYear))
       => /\ ~ev'.made
          /\ UNCHANGED <<formValues, quickCode, quickCodeError, store, chromeQ,
                         paperDetails, dialogOpen, hasGeneratedInitialUrl,
                         timers, todo>>]_vars

\* A submit was attempted on a form that is filled in and has paper type 0.
ZeroPaperTypeSubmitAttempted ==
  /\ ev.name = "handleFormSubmitInvalid"
  /\ formValues.subject # "" /\ formValues.season # ""
  /\ formValues.paperType = <<"0">>
  /\ Len(formValues.variant) = 1 /\ Len(formValues.year) = 2

\* The loads of the stored form and quick code that are in flight: gets of
\* the extension backend and resolved promises whose reaction has not run.
LoadsInFlight(gets, tasks) ==
  Cardinality({i \in 1..Len(gets) : gets[i].op \in {"loadQuick", "loadForm"}})
    + Cardinality({i \in 1..Len(tasks) :
                     tasks[i].k \in {"loadQuickThen", "loadFormThen"}})

\* A step that requests the stored values.
LoadsRequested == LoadsInFlight(chromeQ', todo') > LoadsInFlight(chromeQ, todo)

\* What a step may do about the request: it is made only with
\* preferencesLoaded true, by the load effect, for both stored values
\* together, while hasMountedRef is not set, and sets it; hasMountedRef is
\* never reset.
RequestStep ==
  /\ LoadsRequested =>
       /\ preferencesLoaded
       /\ ~hasMountedRef /\ hasMountedRef'
       /\ ev'.name = "loadEffect"
       /\ LoadsInFlight(chromeQ', todo') = LoadsInFlight(chromeQ, todo) + 2
  /\ hasMountedRef => hasMountedRef'

LoadSkippedAfterSubmit ==
  /\ ev.name = "loadEffect"
  /\ preferencesLoaded /\ hasGeneratedInitialUrl /\ ~hasMountedRef

\* The same with nothing left to run and the user free to go on or not: the
\* page rests there without having requested the stored values.
RestsWithoutRequest ==
  /\ preferencesLoaded /\ hasGeneratedInitialUrl /\ ~hasMountedRef
  /\ todo = <<>> /\ chromeQ = <<>> /\ timers = <<>>
  /\ budget > 0

ClearResetsEveryComponent ==
  ev.name = "clearEffect" =>
    /\ formValues = DefaultForm
    /\ quickCode = <<>>
    /\ quickCodeError = NoError
    /\ paperDetails = NoDetails
    /\ ~dialogOpen

\* What the clear does reset whichever button started it: the search form,
\* the quick code and its error, and the dialog is closed.
ClearResetsSearchForm ==
  ev.name = "clearEffect" =>
    /\ formValues = DefaultForm
    /\ quickCode = <<>>
    /\ quickCodeError = NoError
    /\ errors = NoErrors
    /\ ~dialogOpen

\* A clear has run and the App still holds the paper details of the last
\* generated URL.
PaperDetailsSurviveClear ==
  /\ ev.name = "clearEffect"
  /\ formValues = DefaultForm
  /\ paperDetails # NoDetails

\* C25: on startup the paper dialog is opened automatically only when the
\* show-dialog preference is on and the stored manual-input values form a
\* complete, valid identifier (isFormComplete holds for them); stored values
\* that are incomplete or invalid never open the dialog.
DialogOpensOnlyForCompleteForm ==
  dialogOpen =>
    /\ LoadPreferencesNow.showDialogOnLoad
    /\ isFormComplete(formValues, CurrentYear)

\* What the startup does test: the preference is on, the five fields of
\* the stored form are set and its year is 2009 to the current year.
DialogOpensOnlyForFilledForm ==
  dialogOpen =>
    /\ LoadPreferencesNow.showDialogOnLoad
    /\ AllPresent(formValues)
    /\ parseInt(<<"2", "0">> \o formValues.year) >= 2009
    /\ parseInt(<<"2", "0">> \o formValues.year) <= CurrentYear

\* The dialog was opened at startup on a stored form with paperType "0".
DialogOpenedOnZeroPaperType ==
  /\ ev.name = "loadTimer"
  /\ dialogOpen
  /\ formValues.paperType = <<"0">>

\* The state right after a quick-code submit that generated a URL, directly
\* or through the pending-subject effect.
AfterQuickSubmit == ev.made /\ ev.quick

\* The identifier the quick code of the field decodes to.
DecodedIdentifier ==
  FormFromParsed(parseQuickCode(quickCode),
                 FindSubjectByCode(parseQuickCode(quickCode).subjectCode))

\* C26: after a successful quick-code submit (code valid, paperType not 0)
\* the manual form holds the decoded identifier and is valid: isFormValid
\* is true whatever field errors manual edits recorded before the submit.
QuickSubmitLeavesFormValid ==
  (AfterQuickSubmit /\ formValues.paperType # <<"0">>) =>
    /\ formValues = DecodedIdentifier
    /\ isFormValid(formValues, errors, CurrentYear)

\* What the submit does establish: the form holds the decoded identifier
\* and is valid but for the field errors recorded before the submit, which
\* the submit leaves in place.
QuickSubmitLeavesFormValidButForErrors ==
  (AfterQuickSubmit /\ formValues.paperType # <<"0">>) =>
    /\ formValues = DecodedIdentifier
    /\ isFormValid(formValues, NoErrors, CurrentYear)

\* A quick-code submit succeeded, the form holds its identifier and a field
\* error of an earlier manual edit is still recorded.
QuickSubmitKeptFieldError ==
  /\ AfterQuickSubmit
  /\ formValues.paperType # <<"0">>
  /\ formValues = DecodedIdentifier
  /\ hasErrors(errors)

\* C27: each successful quick-code submit causes exactly one URL
\* generation, reported with isQuickSearch = true and showDialog = true,
\* whether or not the curriculum had to change; no second generation or
\* dialog follows from the same submit.  Step by step: a submit within the
\* selected curriculum generates in its own step; a submit that switches
\* the curriculum generates nothing itself and the pending-subject effect
\* generates in the very next step; the effect generates at no other time,
\* and nothing else reports a quick-search generation.
QuickSubmitGeneratesOnce ==
  [][/\ ev'.name = "handleQuickCodeSubmitDirect" =>
          ev'.made /\ ev'.quick /\ ev'.show
     /\ ev'.name = "handleQuickCodeSubmitPending" => ~ev'.made
     /\ ev.name = "handleQuickCodeSubmitPending" =>
          /\ ev'.name = "pendingSubjectEffect"
          /\ ev'.made /\ ev'.quick /\ ev'.show
     /\ (ev'.name = "pendingSubjectEffect" /\ ev'.made) =>
          ev.name = "handleQuickCodeSubmitPending"
     /\ (ev'.made /\ ev'.quick) =>
          ev'.name \in {"handleQuickCodeSubmitDirect", "pendingSubjectEffect"}]_vars

\* A submit switched the curriculum and the pending-subject effect
\* generated its URL and opened the dialog; the pending subject is cleared,
\* so the effect run the opened dialog causes finds nothing to do.
PendingSubmitGenerated ==
  /\ ev.name = "pendingSubjectEffect"
  /\ ev.made /\ ev.quick /\ ev.show
  /\ dialogOpen /\ paperDetails.link = SearchUrl(formValues)
  /\ pendingSubjectRef = ""

\* C28: submitting a quick code that is empty or fails validateQuickCode
\* changes nothing except the displayed quick-code error: the form values,
\* the pending subject, the stored form values and the generated URL /
\* dialog state are all unchanged.
RejectedQuickSubmitOnlySetsError ==
  [][(/\ ev'.name \in {"handleQuickCodeSubmitInvalid", "handleQuickCodeSubmitPending",
                       "handleQuickCodeSubmitDirect"}
      /\ quickCode = <<>> \/ validateQuickCode(quickCode, CurrentYear) # NoError)
       => /\ quickCodeError' = validateQuickCode(quickCode, CurrentYear)
          /\ UNCHANGED <<formValues, errors, fullYear, quickCode,
                         pendingSubjectRef, hasGeneratedInitialUrl,
                         store, chromeQ, timers, todo,
                         paperDetails, dialogOpen>>]_vars

\* A quick code that validateQuickCode rejects was submitted over a filled
\* form and a generated URL.
RejectedQuickSubmitOverFilledForm ==
  /\ ev.name = "handleQuickCodeSubmitInvalid"
  /\ quickCode # <<>> /\ quickCodeError # NoError
  /\ formValues.subject # "" /\ paperDetails # NoDetails

\* A saveFormValues on the localStorage backend has just completed over a
\* formValues item that JSON.parse rejects.
SavedOverUnparsableEntry ==
  /\ ev.name = "saveFormValuesDone"
  /\ ~chromeAvail
  /\ ev.read # Absent /\ ~JsonParses(ev.read)

\* C29: a form save on the local-storage backend when the stored formValues
\* entry cannot be parsed treats the existing value as empty and stores the
\* new values, so the edit is not lost and later loads return it.
UnparsableEntryReplacedBySave ==
  SavedOverUnparsableEntry =>
    /\ store.formValues = Json(MergeObj(EmptyObj, ev.values))
    /\ LoadFormValuesLocal(store) = Val(MergeObj(EmptyObj, ev.values))

\* What the save does over such an entry: nothing is written, the entry
\* stays as it was and loadFormValues keeps resolving null.
UnparsableEntryKeptBySave ==
  SavedOverUnparsableEntry =>
    /\ store.formValues = ev.read
    /\ LoadFormValuesLocal(store) = Null

\* The whole form was saved over an unparsable entry and the entry is
\* still there.
FormSaveLostOverUnparsableEntry ==
  /\ SavedOverUnparsableEntry
  /\ ev.values = StoredForm
  /\ store.formValues = ev.read

OneToNine == {<<d>> : d \in Digits \ {"0"}}

\* C30: from any paperType value (empty or a single digit), after any
\* sequence of incrementPaperType and decrementPaperType the paperType is a
\* digit 1-9: increment maps 9 and the empty value to 1, decrement maps 1
\* and the empty value to 9, and the value "0" is never produced.
StepperStaysInOneToNine ==
  [][/\ ev'.name \in {"incrementPaperType", "decrementPaperType"} =>
          /\ formValues'.paperType \in OneToNine
          /\ errors'.paperType = NoError
     /\ (ev'.name = "incrementPaperType"
           /\ formValues.paperType \in {<<>>, <<"9">>}) =>
          formValues'.paperType = <<"1">>
     /\ (ev'.name = "decrementPaperType"
           /\ formValues.paperType \in {<<>>, <<"1">>}) =>
          formValues'.paperType = <<"9">>
     /\ ev.name # "typed" => formValues.paperType \in OneToNine]_vars

\* The buttons went round the end of the range: up to 9, on to 1, back to 9.
SteppedAroundTheEnd ==
  /\ ev.name = "decrementPaperType"
  /\ formValues.paperType = <<"9">>
  /\ budget = MaxEvents - 3
  /\ IF chromeAvail THEN chromeQ # <<>>
     ELSE store.formValues = Json([DefaultForm EXCEPT !.paperType = <<"9">>])

====
